---- MODULE Spec2Model ----
(***************************************************************************)
(* A model of the freertos-rust wrappers (mutex.rs, semaphore.rs,          *)
(* queue.rs, isr.rs) over the kernel calls that glue.rs forwards to.       *)
(*                                                                         *)
(* One kernel queue object (a FreeRTOS Queue_t: length, stored items,      *)
(* mutex holder, recursive call count) is shared by a set of tasks and one *)
(* interrupt handler.  Its kind (mutex, recursive mutex, binary or         *)
(* counting semaphore, queue) is fixed by the constructor that creates it. *)
(* A kernel call is one atomic step (the kernel runs it in a critical      *)
(* section); a call that cannot complete blocks its task, which resumes    *)
(* when the kernel wakes it (event or timeout) and retries.                *)
(***************************************************************************)
EXTENDS Integers, Sequences, FiniteSets, TLC

\* ---- bounds of the model ------------------------------------------------
NumTasks == 2      \* tasks sharing the object
MaxWait == 1       \* largest finite timeout, in ticks
MaxGuards == 2     \* live guards one task holds at once
MaxRec == 3        \* cap of uxRecursiveCallCount
MaxCap == 2        \* largest queue capacity / semaphore max
MaxSends == 2      \* sends that complete or block in one run
NotifyBits == 2    \* width of a notification value
MaxSpawns == 2     \* closures started with TaskBuilder::start
MaxTimerQueue == 2 \* length of the timer service task's command queue
MaxFires == 2      \* callback invocations in one run
MaxPeriod == 2     \* largest timer period, in ticks
MaxMs == 12       \* milliseconds counts converted, besides the large ones
MaxNest == 4       \* CriticalSection guards alive at once
MaxTicks == 5      \* ticks counted after a TaskDelayPeriodic is made
MaxRun == 8        \* small run-time counter values, besides the large ones

\* ---- program constants --------------------------------------------------
\* portMAX_DELAY, the all-ones TickType that Ticks::infinite() carries.  The
\* model's ticks are 16 bits wide, since TLC's integers stop short of 2^32.
MAX_DELAY == 65535

VARIABLES
    obj,      \* the kernel object behind the wrapper
    made,     \* the arguments its constructor was called with
    data,     \* BasicMutex.data, the protected value
    tcb,      \* per task: run / blocked / woken inside a kernel call
    guards,   \* per task: live MutexGuards / SemaphoreGuards it holds
    ntf,      \* per task: its notification state and value
    isr,      \* the InterruptContext of the handler invocation
    sent,     \* items whose send completed, in completion order
    recvd,    \* items receive returned, in completion order
    deletes,  \* vQueueDelete calls issued on the handle
    uaf,      \* a kernel call was issued on a handle that is not live
    spawn,    \* per started closure: its box, the spawner and the new task
    tmr,      \* the timer: its wrapper, kernel object, commands and callback
    crit,     \* the critical sections: saved states, guards, preemption
    units,    \* per task: the timeout it asked for and the Ticks made of it
    prio,     \* per task: the priority it was started with
    delay,    \* a TaskDelayPeriodic and the kernel's tick count
    report,   \* a task's line of the SchedulerState report
    ev        \* the wrapper call step just taken

vars == <<obj, made, data, tcb, guards, ntf, isr, sent, recvd, deletes, uaf,
          spawn, tmr, crit, units, prio, delay, report, ev>>

\* The state of the kernel object and its tasks, and the state of the
\* other wrappers.
objVars == <<obj, made, data, tcb, guards, ntf, isr, sent, recvd, deletes, uaf>>
restVars == <<units, prio, delay, report>>
auxVars == <<spawn, tmr, crit, restVars>>

Tasks == 1..NumTasks
Waits == (0..MaxWait) \cup {MAX_DELAY}
\* The values a queue item and the protected value of a mutex take: the
\* wrappers copy them and never look inside, so two of each are enough to
\* tell one from the other.
Items == {1, 2}
Data == {0, 1}
MutexKinds == {"mutex", "recursive"}
SemKinds == {"binary", "counting"}

\* TaskPriority handed to the task builder: tasks 1,2 share priority 1,
\* tasks 3,4 priority 2, ...  Priority 0 is the idle task's.
Prio(t) == IF t = 0 THEN 0 ELSE (t + 1) \div 2

NoObj == [state |-> "none", kind |-> "none", length |-> 0, items |-> <<>>,
          holder |-> 0, rec |-> 0]
NoNotification == [state |-> "none", value |-> 0]
NoArgs == [max |-> 0, initial |-> 0]
Idle == [st |-> "run", api |-> "none", left |-> 0, item |-> 0]
\* No handler runs: the last context is gone; yields keeps the calls of
\* task_yield_from_isr its drop made.
NoIsr == [active |-> FALSE, woken |-> 0, cur |-> 0, yields |-> 0, set |-> FALSE]
\* A closure handed to TaskBuilder::start: where Task::spawn stands (pc),
\* the Box holding the closure, the new task, how often the closure was
\* run and its box freed, by whom, on a live box or not (bad), and what
\* start returned.
Spawns == 1..MaxSpawns
NoSpawn == [pc |-> "none", box |-> "none", child |-> "none", runs |-> 0,
            frees |-> 0, by |-> "none", bad |-> FALSE, res |-> "none"]
\* A call that sends a command to the timer service task: none in
\* progress, or blocked on the full command queue with `left` ticks to go.
\* The critical sections: the interrupt mask of the core ("open": the
\* scheduler can preempt, "masked": it cannot), the task running, the live
\* CriticalSection guards in the order they were entered (the saved state
\* each carries, the mask as it was before its enter, its task), and whether
\* the guards were so far dropped last-entered first.  A guard that is the
\* _lock of an ExclusiveDataGuard is marked data; isrGuards counts the live
\* ExclusiveDataGuardIsr.
InterruptMasks == {"open", "masked"}
NoCrit == [mask |-> "open", cur |-> 1, guards |-> <<>>, nested |-> TRUE,
           isrGuards |-> 0]
\* The timeouts: the tick rate the kernel is configured with and, per
\* task, the duration it asked for (its unit, its count), and the Ticks the
\* constructor made of it, if it returned, and what to_milliseconds made
\* of those, if it was called.
NoAsked == [unit |-> "none", d |-> 0, made |-> FALSE, ticks |-> 0,
            read |-> FALSE, ms |-> 0]
NoUnits == [hz |-> 0, asked |-> [t \in Tasks |-> NoAsked]]
\* The TaskDelayPeriodic (pc: none, live) with its two fields, the kernel's
\* tick count now, what should_run last returned (none, true, false, or
\* panic when the call unwound), the ticks that really passed since the
\* period was last restarted, and the ticks counted since new.
NoDelay == [pc |-> "none", now |-> 0, last_wake_time |-> 0, period_ticks |-> 0,
            res |-> "none", elapsed |-> 0, ticks |-> 0]
\* The SchedulerState report (pc: none, taken, shown): the total run time,
\* one task's run-time counter, and the text of that task's relative CPU
\* column once the report was formatted.
NoReport == [pc |-> "none", total_run_time |-> 0, run_time_counter |-> 0,
             cpu_rel |-> ""]
NoCall == [st |-> "none", op |-> "none", arg |-> 0, left |-> 0]
\* The timer: the Timer wrapper (pc: none, failed, live, detach, deleting,
\* dropped; its destructor field; whether detach was called), the Box of
\* the callback, the kernel timer (dormant, active, deleted; period;
\* auto-reload), the command queue of the timer service task, the command
\* call in progress, and what happened: callback invocations, an
\* invocation on a freed box (bad), start / change-period commands
\* accepted.
NoTimer == [pc |-> "none", destructor |-> FALSE, detached |-> FALSE,
            box |-> "none", frees |-> 0,
            kernel |-> "none", period |-> 0, reload |-> FALSE,
            queue |-> <<>>, call |-> NoCall,
            fired |-> 0, bad |-> FALSE, started |-> FALSE, changed |-> FALSE]
\* A step of a wrapper call: who, which call, what it returned, the item it
\* carried and the ticks of its wait that were left.
Ev(t, op, r, i, w) == [t |-> t, op |-> op, res |-> r, item |-> i, left |-> w]

\* ---- glue.rs: the kernel calls, as functions of the kernel object -------

\* xQueueCreateMutex: length 1, no holder, created in the given state.
create_mutex ==
    [state |-> "live", kind |-> "mutex", length |-> 1, items |-> <<0>>,
     holder |-> 0, rec |-> 0]

create_recursive_mutex ==
    [state |-> "live", kind |-> "recursive", length |-> 1, items |-> <<0>>,
     holder |-> 0, rec |-> 0]

\* xQueueSemaphoreTake can complete: uxMessagesWaiting > 0.
take_mutex_ready(o) == Len(o.items) > 0

\* xQueueSemaphoreTake completing for task t: one message less, and for a
\* mutex type the caller becomes the holder.
take_mutex(o, t) ==
    [o EXCEPT !.items = Tail(@),
              !.holder = IF o.kind \in MutexKinds THEN t ELSE @]

\* xQueueTakeMutexRecursive: the holder only counts; anyone else takes the
\* semaphore first.
take_recursive_mutex_ready(o, t) == o.holder = t \/ take_mutex_ready(o)

take_recursive_mutex(o, t) ==
    IF o.holder = t
    THEN [o EXCEPT !.rec = @ + 1]
    ELSE [take_mutex(o, t) EXCEPT !.rec = @ + 1]

\* xQueueGenericSend can complete: uxMessagesWaiting < uxLength.
queue_send_ready(o) == Len(o.items) < o.length

\* xQueueGenericSend(h, NULL, 0, queueSEND_TO_BACK) on a semaphore or mutex:
\* one message more; a mutex type loses its holder (prvCopyDataToQueue).
\* uxRecursiveCallCount is not touched.
give_mutex(o) ==
    [o EXCEPT !.items = Append(@, 0),
              !.holder = IF o.kind \in MutexKinds THEN 0 ELSE @]

\* xQueueGiveMutexRecursive by task t: only the holder may give; the
\* semaphore is given back when the count returns to zero.
give_recursive_mutex(o, t) ==
    IF o.holder # t THEN o
    ELSE IF o.rec = 1 THEN [give_mutex(o) EXCEPT !.rec = 0]
    ELSE [o EXCEPT !.rec = @ - 1]

\* vQueueDelete
delete_semaphore(o) == [o EXCEPT !.state = "deleted"]

\* xQueueGenericCreate(length, item_size, queueQUEUE_TYPE_BASE): empty.
queue_create(length) ==
    [state |-> "live", kind |-> "queue", length |-> length, items |-> <<>>,
     holder |-> 0, rec |-> 0]

\* xQueueGenericSend(h, item, wait, 0): 0 is queueSEND_TO_BACK.
queue_send_ToFront(o, item) == [o EXCEPT !.items = <<item>> \o @]
queue_send(o, item) == [o EXCEPT !.items = Append(@, item)]

\* xQueueReceive can complete: uxMessagesWaiting > 0; it copies the item
\* at the head into the buffer and removes it.
queue_receive_ready(o) == Len(o.items) > 0
queue_receive_item(o) == Head(o.items)
queue_receive(o) == [o EXCEPT !.items = Tail(@)]

\* xQueueGenericSendFromISR(h, item, &woken, 0): to the back, never waits.
queue_send_isr(o, item) == [o EXCEPT !.items = Append(@, item)]

create_binary_semaphore_Given ==
    [state |-> "live", kind |-> "binary", length |-> 1, items |-> <<0>>,
     holder |-> 0, rec |-> 0]

\* xQueueGenericCreate(1, 0, queueQUEUE_TYPE_BINARY_SEMAPHORE): created
\* empty, it has to be given before it can be taken.
create_binary_semaphore ==
    [state |-> "live", kind |-> "binary", length |-> 1, items |-> <<>>,
     holder |-> 0, rec |-> 0]

\* xQueueCreateCountingSemaphore(max, initial)
create_counting_semaphore(max, initial) ==
    [state |-> "live", kind |-> "counting", length |-> max,
     items |-> [i \in 1..initial |-> 0], holder |-> 0, rec |-> 0]

\* xQueueGiveFromISR: one message more, never waits.
give_mutex_isr(o) == [o EXCEPT !.items = Append(@, 0)]

\* Bitwise operations on notification values.
RECURSIVE BitOr(_, _)
BitOr(a, b) ==
    IF a = 0 THEN b ELSE IF b = 0 THEN a
    ELSE (IF a % 2 = 1 \/ b % 2 = 1 THEN 1 ELSE 0) + 2 * BitOr(a \div 2, b \div 2)

RECURSIVE BitClear(_, _)
BitClear(a, m) ==
    IF a = 0 THEN 0
    ELSE (IF a % 2 = 1 /\ m % 2 = 0 THEN 1 ELSE 0) + 2 * BitClear(a \div 2, m \div 2)

NotifyValues == 0..(2 ^ NotifyBits - 1)

\* xTaskGenericNotifyWait on entry: unless a notification is pending, the
\* entry bits are cleared and the task is marked waiting.
task_notify_wait_ready(n) == n.state = "received"
task_notify_wait_entry(n, enter) ==
    IF n.state = "received" THEN n
    ELSE [state |-> "waiting", value |-> BitClear(n.value, enter)]

task_notify_wait_exit_Always(n, exit, ok) ==
    [state |-> "none", value |-> BitClear(n.value, exit)]

\* xTaskGenericNotifyWait on return: the exit bits are cleared if a
\* notification was received; the task no longer waits.
task_notify_wait_exit(n, exit, ok) ==
    [state |-> "none", value |-> IF ok THEN BitClear(n.value, exit) ELSE n.value]

\* xTaskGenericNotifyFromISR: the notification is marked received and the
\* value updated by the action; setting without overwrite fails when one
\* was already pending.
task_notify_isr_ok(n, action) ==
    ~(action = "SetValueWithoutOverwrite" /\ n.state = "received")

task_notify_isr(n, v, action) ==
    [state |-> "received",
     value |-> CASE action = "NoAction" -> n.value
                 [] action = "SetBits" -> BitOr(n.value, v)
                 [] action = "Increment" -> (n.value + 1) % (2 ^ NotifyBits)
                 [] action = "SetValueWithOverwrite" -> v
                 [] action = "SetValueWithoutOverwrite" ->
                        IF n.state = "received" THEN n.value ELSE v]

\* xTaskGenericNotify: as from an interrupt, from a task.
task_notify_ok(n, action) == task_notify_isr_ok(n, action)
task_notify(n, v, action) == task_notify_isr(n, v, action)

\* ulTaskGenericNotifyTake on entry: the call waits only while the value is
\* zero, whatever the notification state.
task_notify_take_ready(n) == n.value # 0
task_notify_take_entry(n) ==
    IF n.value # 0 THEN n ELSE [n EXCEPT !.state = "waiting"]

task_notify_take_exit_Keeps(n, clear) == [state |-> "none", value |-> n.value]

\* ulTaskGenericNotifyTake on return: a value that is not zero is cleared
\* or decremented; the task no longer waits.
task_notify_take_exit(n, clear) ==
    [state |-> "none",
     value |-> IF n.value = 0 THEN 0 ELSE IF clear THEN 0 ELSE n.value - 1]

\* vQueueDelete
queue_delete(o) == [o EXCEPT !.state = "deleted"]

\* The from-ISR kernel calls write pdTRUE to *pxHigherPriorityTaskWoken when
\* the task they unblocked (w, 0: none) has a higher priority than the
\* interrupted one (cur is its priority), and leave it alone otherwise.
HigherPriorityTaskWoken(flag, w, cur) ==
    IF w # 0 /\ prio[w] > cur THEN 1 ELSE flag

\* ---- kernel call plumbing ----------------------------------------------

\* The kernel call a wrapper call makes (mutex.rs 145-151, 182-188).
KernelOp(api, o) ==
    CASE api = "lock" -> IF o.kind = "recursive" THEN "take_recursive" ELSE "take"
      [] api \in {"sem_lock", "sem_take"} -> "take"
      [] api = "send" -> "send"
      [] api = "receive" -> "receive"
      [] api = "wait" -> "notify_wait"
      [] api = "take_notification" -> "notify_take"
      [] OTHER -> "none"

\* The event list a blocked call waits on.
WaitsToReceive(api) == api \in {"lock", "sem_lock", "sem_take", "receive"}
WaitsToSend(api) == api = "send"

WaitTicks_Finite(w) == IF w = MAX_DELAY THEN MaxWait ELSE w

\* Ticks::into for the wait values: ticks are passed through unchanged.
WaitTicks(w) == w

\* xTaskRemoveFromEventList: the highest-priority task blocked on the list.
Waiters(tc, receiving) ==
    {t \in Tasks : /\ tc[t].st = "blocked"
                   /\ IF receiving THEN WaitsToReceive(tc[t].api)
                                   ELSE WaitsToSend(tc[t].api)}

WakeSet(tc, receiving) ==
    {t \in Waiters(tc, receiving) :
        \A u \in Waiters(tc, receiving) : prio[u] <= prio[t]}

\* tcb after waking task w (0: nobody waits)
Woken(tc, w) == IF w = 0 THEN tc ELSE [tc EXCEPT ![w].st = "woken"]

WakeChoices_Nobody(tc, receiving) == {0}
WakeChoices(tc, receiving) ==
    IF WakeSet(tc, receiving) = {} THEN {0} ELSE WakeSet(tc, receiving)

TotalGuards == LET RECURSIVE Sum(_)
                   Sum(n) == IF n = 0 THEN 0 ELSE guards[n] + Sum(n - 1)
               IN Sum(NumTasks)

NoCallInProgress == \A t \in Tasks : tcb[t].st = "run"

\* ---- mutex.rs -----------------------------------------------------------

\* Normal::take / Recursive::take: the kernel's answer as a Result.
Lockable_take_SemaphoreError(ok) == IF ok THEN "Ok" ELSE "Timeout"
Lockable_take(ok) == IF ok THEN "Ok" ELSE "MutexTimeout"

\* BasicMutex::lock: `?` returns the error, otherwise a guard is built.
BasicMutex_lock_BuildsAlways(g, t, r) == [g EXCEPT ![t] = @ + 1]
BasicMutex_lock(g, t, r) == IF r = "Ok" THEN [g EXCEPT ![t] = @ + 1] ELSE g

\* Normal::give and Recursive::give: both call glue::give_mutex.
Normal_give(o, t) == IF queue_send_ready(o) THEN give_mutex(o) ELSE o
Recursive_give(o, t) == IF queue_send_ready(o) THEN give_mutex(o) ELSE o

\* ---- queue.rs -----------------------------------------------------------

\* Queue::new: the queue the kernel is asked for holds max_size items.
Queue_new_handle_OneMore(max_size) == queue_create(max_size + 1)
Queue_new_handle(max_size) == queue_create(max_size)

\* Queue::send: the kernel's answer as a Result.
Queue_send(ok) == IF ok THEN "Ok" ELSE "QueueSendTimeout"

\* Queue::receive: Ok(buff) when the kernel filled the buffer.
Queue_receive_AlwaysOk(ok) == "Ok"
Queue_receive(ok) == IF ok THEN "Ok" ELSE "QueueReceiveTimeout"

\* Queue::send_from_isr: the kernel's answer as a Result.
Queue_send_from_isr_SendError(ok) == IF ok THEN "Ok" ELSE "QueueSendTimeout"
Queue_send_from_isr(ok) == IF ok THEN "Ok" ELSE "QueueFull"

\* ---- semaphore.rs -------------------------------------------------------

\* Semaphore::lock: Ok(SemaphoreGuard) or Err(Timeout).
Semaphore_lock(ok) == IF ok THEN "Ok" ELSE "Timeout"
Semaphore_lock_guard(g, t, r) == IF r = "Ok" THEN [g EXCEPT ![t] = @ + 1] ELSE g

\* Semaphore::take
Semaphore_take(ok) == IF ok THEN "Ok" ELSE "Timeout"

\* Semaphore::give and Semaphore::give_from_isr
Semaphore_give_AlwaysOk(ok) == "Ok"
Semaphore_give(ok) == IF ok THEN "Ok" ELSE "QueueFull"
Semaphore_give_from_isr(ok) == IF ok THEN "Ok" ELSE "QueueFull"

\* ---- task.rs ------------------------------------------------------------

\* TaskNotification, as <<variant, value>>.
TaskNotifications ==
    {<<"NoAction", 0>>, <<"Increment", 0>>}
      \cup {<<k, v>> : k \in {"SetBits", "OverwriteValue", "SetValue"},
                       v \in NotifyValues}

to_freertos_Overwrites(n) ==
    CASE n[1] = "NoAction" -> <<0, "NoAction">>
      [] n[1] = "SetBits" -> <<n[2], "SetBits">>
      [] n[1] = "Increment" -> <<0, "Increment">>
      [] n[1] = "OverwriteValue" -> <<n[2], "SetValueWithOverwrite">>
      [] n[1] = "SetValue" -> <<n[2], "SetValueWithOverwrite">>

\* TaskNotification::to_freertos: (value, action).
to_freertos(n) ==
    CASE n[1] = "NoAction" -> <<0, "NoAction">>
      [] n[1] = "SetBits" -> <<n[2], "SetBits">>
      [] n[1] = "Increment" -> <<0, "Increment">>
      [] n[1] = "OverwriteValue" -> <<n[2], "SetValueWithOverwrite">>
      [] n[1] = "SetValue" -> <<n[2], "SetValueWithoutOverwrite">>

\* Task::wait_for_notification: Ok(val) or Err(Timeout).
Task_wait_for_notification(ok) == IF ok THEN "Ok" ELSE "Timeout"

\* Task::notify: the kernel's answer is dropped, the call returns nothing.
Task_notify(ok) == "none"

\* Task::notify_from_isr
Task_notify_from_isr(ok) == IF ok THEN "Ok" ELSE "QueueFull"

\* ---- isr.rs -------------------------------------------------------------

\* InterruptContext::new
InterruptContext_new(cur) ==
    [active |-> TRUE, woken |-> 0, cur |-> cur, yields |-> 0, set |-> FALSE]

\* Drop for InterruptContext: task_yield_from_isr() when the flag is 1.
InterruptContext_drop_YieldsAlways(c) == [NoIsr EXCEPT !.yields = c.yields + 1]
InterruptContext_drop(c) ==
    [NoIsr EXCEPT !.yields = IF c.woken = 1 THEN c.yields + 1 ELSE c.yields]

\* MutexGuard::drop: self.mutex.give().
MutexGuard_drop(o, t) ==
    IF o.kind = "recursive" THEN Recursive_give(o, t) ELSE Normal_give(o, t)

\* ---- one wrapper call, from entry to return ----------------------------

\* The kernel call can complete now.
CallReady(api, o, t) ==
    CASE KernelOp(api, o) = "take" -> take_mutex_ready(o)
      [] KernelOp(api, o) = "take_recursive" -> take_recursive_mutex_ready(o, t)
      [] KernelOp(api, o) = "send" -> queue_send_ready(o)
      [] KernelOp(api, o) = "receive" -> queue_receive_ready(o)
      [] KernelOp(api, o) = "notify_wait" -> task_notify_wait_ready(ntf[t])
      [] KernelOp(api, o) = "notify_take" ->
             task_notify_take_ready(ntf[t]) \/ tcb[t].st = "woken"
      [] OTHER -> FALSE

\* The kernel object after the call completed.
CallEffect(api, o, t, item) ==
    CASE KernelOp(api, o) = "take" -> take_mutex(o, t)
      [] KernelOp(api, o) = "take_recursive" -> take_recursive_mutex(o, t)
      [] KernelOp(api, o) = "send" -> queue_send(o, item)
      [] KernelOp(api, o) = "receive" -> queue_receive(o)
      [] OTHER -> o

\* What the wrapper returns for the kernel's pdTRUE / pdFALSE.
CallResult(api, ok) ==
    CASE api = "lock" -> Lockable_take(ok)
      [] api = "send" -> Queue_send(ok)
      [] api = "receive" -> Queue_receive(ok)
      [] api = "sem_lock" -> Semaphore_lock(ok)
      [] api = "sem_take" -> Semaphore_take(ok)
      [] api = "wait" -> Task_wait_for_notification(ok)
      [] OTHER -> "none"

\* The item the call hands back: receive returns the buffer the kernel
\* filled (zeroed before the call), wait_for_notification and
\* take_notification the notification value n they read, the others the
\* item they carried.
CallItem(api, o, n, item, ok) ==
    CASE api = "receive" -> IF ok THEN queue_receive_item(o) ELSE 0
      [] api = "wait" -> n.value
      [] api = "take_notification" -> n.value
      [] OTHER -> item

\* The guards after the wrapper returned r.
CallGuards(api, g, t, r) ==
    CASE api = "lock" -> BasicMutex_lock(g, t, r)
      [] api = "sem_lock" -> Semaphore_lock_guard(g, t, r)
      [] OTHER -> g

\* The bits wait_for_notification clears on entry and on exit travel as
\* one item: clear_bits_enter above clear_bits_exit.
ClearBits(enter, exit) == enter * (2 ^ NotifyBits) + exit
ClearBitsEnter(item) == item \div (2 ^ NotifyBits)
ClearBitsExit(item) == item % (2 ^ NotifyBits)

\* The notification of task t once its call has entered the kernel: the
\* entry step of xTaskGenericNotifyWait and ulTaskGenericNotifyTake runs
\* when the call starts, not when the task resumes.
Entered(t, api, item) ==
    IF api = "wait" /\ tcb[t].st = "run"
    THEN task_notify_wait_entry(ntf[t], ClearBitsEnter(item))
    ELSE IF api = "take_notification" /\ tcb[t].st = "run"
    THEN task_notify_take_entry(ntf[t])
    ELSE ntf[t]

\* The notification of task t once its call has left the kernel.
Left(t, api, item, ok) ==
    CASE api = "wait" ->
             task_notify_wait_exit(Entered(t, api, item), ClearBitsExit(item), ok)
      [] api = "take_notification" ->
             task_notify_take_exit(Entered(t, api, item), item = 1)
      [] OTHER -> ntf[t]

\* The call of task t returns: ok is the kernel's answer.
Return(t, api, item, left, ok) ==
    /\ obj' = IF ok THEN CallEffect(api, obj, t, item) ELSE obj
    /\ guards' = CallGuards(api, guards, t, CallResult(api, ok))
    /\ \E w \in IF ok THEN WakeChoices([tcb EXCEPT ![t] = Idle], ~WaitsToReceive(api))
                       ELSE {0} :
          tcb' = Woken([tcb EXCEPT ![t] = Idle], w)
    /\ uaf' = (uaf \/ (KernelOp(api, obj) \notin {"notify_wait", "notify_take"}
                             /\ obj.state # "live"))
    /\ sent' = IF api = "send" /\ ok THEN Append(sent, item) ELSE sent
    /\ recvd' = IF api = "receive" /\ CallResult(api, ok) = "Ok"
                THEN Append(recvd, CallItem(api, obj, ntf[t], item, ok)) ELSE recvd
    /\ ev' = Ev(t, api, CallResult(api, ok),
                CallItem(api, obj, Entered(t, api, item), item, ok), left)
    /\ ntf' = [ntf EXCEPT ![t] = Left(t, api, item, ok)]
    /\ UNCHANGED <<auxVars, made, data, isr, deletes>>

\* The kernel call of task t with `left` ticks of its wait remaining:
\* complete, give up, or block on the object's event list.
Attempt(t, api, item, left) ==
    IF CallReady(api, obj, t) THEN Return(t, api, item, left, TRUE)
    ELSE IF left = 0 THEN Return(t, api, item, left, FALSE)
    ELSE /\ tcb' = [tcb EXCEPT ![t] = [st |-> "blocked", api |-> api,
                                       left |-> left, item |-> item]]
         /\ ev' = Ev(t, api, "Blocked", item, left)
         /\ uaf' = (uaf \/ (KernelOp(api, obj) \notin {"notify_wait", "notify_take"}
                             /\ obj.state # "live"))
         /\ ntf' = [ntf EXCEPT ![t] = Entered(t, api, item)]
         /\ UNCHANGED <<auxVars, obj, made, data, guards, isr, sent, recvd, deletes>>

\* A task the kernel woke (event or timeout) runs again and retries.
Resume(t) ==
    /\ tcb[t].st = "woken"
    /\ ~isr.active
    /\ Attempt(t, tcb[t].api, tcb[t].item, tcb[t].left)

\* The tick interrupt: the wait of every task inside a kernel call runs
\* down; a blocked task whose wait ran out is woken.
Ticking == {t \in Tasks : tcb[t].st # "run" /\ tcb[t].left \notin {0, MAX_DELAY}}

Tick ==
    /\ Ticking # {}
    /\ ~isr.active
    /\ tcb' = [t \in Tasks |->
                 IF t \in Ticking
                 THEN [tcb[t] EXCEPT !.left = @ - 1,
                                     !.st = IF tcb[t].left = 1 THEN "woken" ELSE @]
                 ELSE tcb[t]]
    /\ ev' = Ev(0, "tick", "none", 0, 0)
    /\ UNCHANGED <<auxVars, ntf, obj, made, data, guards, isr, sent, recvd, deletes, uaf>>

\* ---- mutex.rs: the operations -----------------------------------------

\* BasicMutex::<T, Normal>::new / BasicMutex::<T, Recursive>::new
Mutex_new_Retries(kind, v, created) ==
    /\ obj.state = "none"
    /\ \E again \in BOOLEAN :
          IF created \/ again
          THEN /\ obj' = IF kind = "recursive" THEN create_recursive_mutex
                                               ELSE create_mutex
               /\ data' = v
               /\ ev' = Ev(0, "new", "Ok", v, 0)
          ELSE /\ ev' = Ev(0, "new", "OutOfMemory", v, 0)
               /\ UNCHANGED <<obj, data>>
    /\ UNCHANGED <<auxVars, ntf, made, tcb, guards, isr, sent, recvd, deletes, uaf>>

Mutex_new(kind, v, created) ==
    /\ obj.state = "none"
    /\ IF created
       THEN /\ obj' = IF kind = "recursive" THEN create_recursive_mutex
                                            ELSE create_mutex
            /\ data' = v
            /\ ev' = Ev(0, "new", "Ok", v, 0)
       ELSE /\ ev' = Ev(0, "new", "OutOfMemory", v, 0)
            /\ UNCHANGED <<obj, data>>
    /\ UNCHANGED <<auxVars, ntf, made, tcb, guards, isr, sent, recvd, deletes, uaf>>

\* BasicMutex::lock(max_wait)
Mutex_lock(t, w) ==
    /\ obj.state = "live" /\ obj.kind \in MutexKinds
    /\ tcb[t].st = "run" /\ ~isr.active
    /\ guards[t] < MaxGuards /\ obj.rec < MaxRec
    /\ Attempt(t, "lock", 0, WaitTicks(w))

\* Drop for MutexGuard
Mutex_guard_drop(t) ==
    /\ obj.kind \in MutexKinds
    /\ tcb[t].st = "run" /\ ~isr.active
    /\ guards[t] > 0
    /\ obj' = MutexGuard_drop(obj, t)
    /\ guards' = [guards EXCEPT ![t] = @ - 1]
    /\ \E w \in IF obj' # obj THEN WakeChoices(tcb, TRUE) ELSE {0} :
          tcb' = Woken(tcb, w)
    /\ uaf' = (uaf \/ obj.state # "live")
    /\ ev' = Ev(t, "guard_drop", "none", 0, 0)
    /\ UNCHANGED <<auxVars, ntf, made, data, isr, sent, recvd, deletes>>

\* DerefMut for MutexGuard: the holder of a guard writes the value.
Mutex_guard_write(t, v) ==
    /\ obj.kind \in MutexKinds
    /\ tcb[t].st = "run" /\ ~isr.active
    /\ guards[t] > 0
    /\ v # data
    /\ data' = v
    /\ ev' = Ev(t, "guard_write", "none", v, 0)
    /\ UNCHANGED <<auxVars, ntf, obj, made, tcb, guards, isr, sent, recvd, deletes, uaf>>

\* Drop for Normal / Recursive: the wrapper goes away once nothing
\* borrows it (a guard or a running lock call holds a reference).
Mutex_drop ==
    /\ obj.state = "live" /\ obj.kind \in MutexKinds
    /\ TotalGuards = 0 /\ NoCallInProgress /\ ~isr.active
    /\ obj' = delete_semaphore(obj)
    /\ deletes' = deletes + 1
    /\ ev' = Ev(0, "drop", "none", 0, 0)
    /\ UNCHANGED <<auxVars, ntf, made, data, tcb, guards, isr, sent, recvd, uaf>>

Init ==
    /\ obj = NoObj
    /\ made = NoArgs
    /\ data = 0
    /\ tcb = [t \in Tasks |-> Idle]
    /\ guards = [t \in Tasks |-> 0]
    /\ ntf = [t \in Tasks |-> NoNotification]
    /\ isr = NoIsr
    /\ sent = <<>>
    /\ recvd = <<>>
    /\ deletes = 0
    /\ uaf = FALSE
    /\ spawn = [i \in Spawns |-> NoSpawn]
    /\ tmr = NoTimer
    /\ crit = NoCrit
    /\ units = NoUnits
    /\ prio = [t \in Tasks |-> Prio(t)]
    /\ delay = NoDelay
    /\ report = NoReport
    /\ ev = Ev(0, "init", "none", 0, 0)

NextMutex ==
    \/ \E k \in MutexKinds, v \in Data, c \in BOOLEAN : Mutex_new(k, v, c)
    \/ \E t \in Tasks, w \in Waits : Mutex_lock(t, w)
    \/ \E t \in Tasks : Mutex_guard_drop(t)
    \/ \E t \in Tasks, v \in Data : Mutex_guard_write(t, v)
    \/ \E t \in Tasks : Resume(t)
    \/ Tick
    \/ Mutex_drop

SpecMutex == Init /\ [][NextMutex]_vars

\* ---- isr.rs: one handler invocation ------------------------------------

\* The priorities of the tasks the interrupt can have interrupted: a task
\* that is not blocked, or the idle task.
Interruptible == {prio[t] : t \in {u \in Tasks : tcb[u].st # "blocked"}} \cup {0}

\* The handler is entered and builds its InterruptContext.
Isr_enter(cur) ==
    /\ ~isr.active
    /\ obj.state = "live"
    /\ cur \in Interruptible
    /\ isr' = InterruptContext_new(cur)
    /\ ev' = Ev(0, "isr_enter", "none", 0, 0)
    /\ UNCHANGED <<auxVars, ntf, obj, made, data, tcb, guards, sent, recvd, deletes, uaf>>

\* The handler returns: the context is dropped as its last action.
Isr_exit ==
    /\ isr.active
    /\ isr' = InterruptContext_drop(isr)
    /\ ev' = Ev(0, "isr_exit", "none", 0, 0)
    /\ UNCHANGED <<auxVars, ntf, obj, made, data, tcb, guards, sent, recvd, deletes, uaf>>

\* ---- queue.rs: the operations -----------------------------------------

SendsStarted == Len(sent) + Cardinality({t \in Tasks : tcb[t].api = "send"})

\* Queue::new(max_size)
Queue_new(cap, created) ==
    /\ obj.state = "none"
    /\ IF created
       THEN /\ obj' = Queue_new_handle(cap)
            /\ made' = [max |-> cap, initial |-> 0]
            /\ ev' = Ev(0, "new", "Ok", cap, 0)
       ELSE /\ ev' = Ev(0, "new", "OutOfMemory", cap, 0)
            /\ UNCHANGED <<obj, made>>
    /\ UNCHANGED <<auxVars, ntf, data, tcb, guards, isr, sent, recvd, deletes, uaf>>

\* Queue::send(item, max_wait)
Queue_send_call(t, item, w) ==
    /\ obj.state = "live" /\ obj.kind = "queue"
    /\ tcb[t].st = "run" /\ ~isr.active
    /\ SendsStarted < MaxSends \/ (w = 0 /\ ~queue_send_ready(obj))
    /\ Attempt(t, "send", item, WaitTicks(w))

\* Queue::receive(max_wait)
Queue_receive_call(t, w) ==
    /\ obj.state = "live" /\ obj.kind = "queue"
    /\ tcb[t].st = "run" /\ ~isr.active
    /\ Attempt(t, "receive", 0, WaitTicks(w))

\* Queue::send_from_isr(context, item)
Queue_send_from_isr_call(item) ==
    /\ obj.state = "live" /\ obj.kind = "queue"
    /\ isr.active
    /\ SendsStarted < MaxSends \/ ~queue_send_ready(obj)
    /\ LET ok == queue_send_ready(obj) IN
       /\ obj' = IF ok THEN queue_send_isr(obj, item) ELSE obj
       /\ sent' = IF ok THEN Append(sent, item) ELSE sent
       /\ \E w \in IF ok THEN WakeChoices(tcb, TRUE) ELSE {0} :
            /\ tcb' = Woken(tcb, w)
            /\ isr' = [isr EXCEPT
                 !.woken = HigherPriorityTaskWoken(isr.woken, w, isr.cur),
                 !.set = @ \/ HigherPriorityTaskWoken(0, w, isr.cur) = 1]
       /\ ev' = Ev(0, "send_from_isr", Queue_send_from_isr(ok), item, 0)
    /\ uaf' = (uaf \/ obj.state # "live")
    /\ UNCHANGED <<auxVars, ntf, made, data, guards, recvd, deletes>>

\* Drop for Queue: nothing borrows the queue any more.
Queue_drop ==
    /\ obj.state = "live" /\ obj.kind = "queue"
    /\ NoCallInProgress /\ ~isr.active
    /\ obj' = queue_delete(obj)
    /\ deletes' = deletes + 1
    /\ ev' = Ev(0, "drop", "none", 0, 0)
    /\ UNCHANGED <<auxVars, ntf, made, data, tcb, guards, isr, sent, recvd, uaf>>

NextQueue ==
    \/ \E k \in 1..MaxCap, c \in BOOLEAN : Queue_new(k, c)
    \/ \E t \in Tasks, i \in Items, w \in Waits : Queue_send_call(t, i, w)
    \/ \E t \in Tasks, w \in Waits : Queue_receive_call(t, w)
    \/ \E i \in Items : Queue_send_from_isr_call(i)
    \/ \E t \in Tasks : Resume(t)
    \/ Tick
    \/ \E p \in Interruptible : Isr_enter(p)
    \/ Isr_exit
    \/ Queue_drop

SpecQueue == Init /\ [][NextQueue]_vars

\* ---- semaphore.rs: the operations --------------------------------------

\* Semaphore::new_binary()
Semaphore_new_binary_call(created) ==
    /\ obj.state = "none"
    /\ IF created
       THEN /\ obj' = create_binary_semaphore
            /\ made' = [max |-> 1, initial |-> 0]
            /\ ev' = Ev(0, "new", "Ok", 0, 0)
       ELSE /\ ev' = Ev(0, "new", "OutOfMemory", 0, 0)
            /\ UNCHANGED <<obj, made>>
    /\ UNCHANGED <<auxVars, ntf, data, tcb, guards, isr, sent, recvd, deletes, uaf>>

\* Semaphore::new_counting(max, initial)
Semaphore_new_counting_call(max, initial, created) ==
    /\ obj.state = "none"
    /\ IF created
       THEN /\ obj' = create_counting_semaphore(max, initial)
            /\ made' = [max |-> max, initial |-> initial]
            /\ ev' = Ev(0, "new", "Ok", max, 0)
       ELSE /\ ev' = Ev(0, "new", "OutOfMemory", max, 0)
            /\ UNCHANGED <<obj, made>>
    /\ UNCHANGED <<auxVars, ntf, data, tcb, guards, isr, sent, recvd, deletes, uaf>>

\* Semaphore::lock(max_wait)
Semaphore_lock_call(t, w) ==
    /\ obj.state = "live" /\ obj.kind \in SemKinds
    /\ tcb[t].st = "run" /\ ~isr.active
    /\ guards[t] < MaxGuards
    /\ Attempt(t, "sem_lock", 0, WaitTicks(w))

\* Semaphore::take(max_wait)
Semaphore_take_call(t, w) ==
    /\ obj.state = "live" /\ obj.kind \in SemKinds
    /\ tcb[t].st = "run" /\ ~isr.active
    /\ Attempt(t, "sem_take", 0, WaitTicks(w))

\* Semaphore::give()
Semaphore_give_call(t) ==
    /\ obj.state = "live" /\ obj.kind \in SemKinds
    /\ tcb[t].st = "run" /\ ~isr.active
    /\ LET ok == queue_send_ready(obj) IN
       /\ obj' = IF ok THEN give_mutex(obj) ELSE obj
       /\ \E w \in IF ok THEN WakeChoices(tcb, TRUE) ELSE {0} :
             tcb' = Woken(tcb, w)
       /\ ev' = Ev(t, "give", Semaphore_give(ok), 0, 0)
    /\ uaf' = (uaf \/ obj.state # "live")
    /\ UNCHANGED <<auxVars, ntf, made, data, guards, isr, sent, recvd, deletes>>

\* Semaphore::give_from_isr(interrupt_context)
Semaphore_give_from_isr_call ==
    /\ obj.state = "live" /\ obj.kind \in SemKinds
    /\ isr.active
    /\ LET ok == queue_send_ready(obj) IN
       /\ obj' = IF ok THEN give_mutex_isr(obj) ELSE obj
       /\ \E w \in IF ok THEN WakeChoices(tcb, TRUE) ELSE {0} :
            /\ tcb' = Woken(tcb, w)
            /\ isr' = [isr EXCEPT
                 !.woken = HigherPriorityTaskWoken(isr.woken, w, isr.cur),
                 !.set = @ \/ HigherPriorityTaskWoken(0, w, isr.cur) = 1]
       /\ ev' = Ev(0, "give_from_isr", Semaphore_give_from_isr(ok), 0, 0)
    /\ uaf' = (uaf \/ obj.state # "live")
    /\ UNCHANGED <<auxVars, ntf, made, data, guards, sent, recvd, deletes>>

\* Drop for SemaphoreGuard: give_mutex on the handle the guard copied.  The
\* guard borrows nothing, so the handle may have been deleted already: the
\* kernel then writes through a dangling pointer, and the freed block is
\* either left as it was or changed.
SemaphoreGuard_drop_call(t) ==
    /\ obj.kind \in SemKinds
    /\ tcb[t].st = "run" /\ ~isr.active
    /\ guards[t] > 0
    /\ guards' = [guards EXCEPT ![t] = @ - 1]
    /\ IF obj.state = "live"
       THEN /\ obj' = IF queue_send_ready(obj) THEN give_mutex(obj) ELSE obj
            /\ \E w \in IF obj' # obj THEN WakeChoices(tcb, TRUE) ELSE {0} :
                  tcb' = Woken(tcb, w)
       ELSE /\ obj' \in {obj, give_mutex(obj)}
            /\ tcb' = tcb
    /\ uaf' = (uaf \/ obj.state # "live")
    /\ ev' = Ev(t, "guard_drop", "none", 0, 0)
    /\ UNCHANGED <<auxVars, ntf, made, data, isr, sent, recvd, deletes>>

\* Drop for Semaphore: no call borrows the semaphore any more.  A
\* SemaphoreGuard carries no lifetime, so guards may still be live.
Semaphore_drop ==
    /\ obj.state = "live" /\ obj.kind \in SemKinds
    /\ NoCallInProgress /\ ~isr.active
    /\ obj' = delete_semaphore(obj)
    /\ deletes' = deletes + 1
    /\ ev' = Ev(0, "drop", "none", 0, 0)
    /\ UNCHANGED <<auxVars, ntf, made, data, tcb, guards, isr, sent, recvd, uaf>>

NextSem ==
    \/ \E c \in BOOLEAN : Semaphore_new_binary_call(c)
    \/ \E m \in 1..MaxCap, c \in BOOLEAN :
          \E i \in 0..m : Semaphore_new_counting_call(m, i, c)
    \/ \E t \in Tasks, w \in Waits : Semaphore_lock_call(t, w)
    \/ \E t \in Tasks, w \in Waits : Semaphore_take_call(t, w)
    \/ \E t \in Tasks : Semaphore_give_call(t)
    \/ \E t \in Tasks : SemaphoreGuard_drop_call(t)
    \/ \E t \in Tasks : Resume(t)
    \/ Tick
    \/ Semaphore_drop

SpecSem == Init /\ [][NextSem]_vars

\* A counting semaphore used by the tasks and by an interrupt handler.
\* take and lock make the same kernel call: here take polls, and lock
\* polls or waits one tick, which is what it takes for a wait to expire.
NextCount ==
    \/ \E m \in 1..MaxCap, c \in BOOLEAN :
          \E i \in 0..m : Semaphore_new_counting_call(m, i, c)
    \/ \E t \in Tasks, w \in {0, 1} : Semaphore_lock_call(t, w)
    \/ \E t \in Tasks : Semaphore_take_call(t, 0)
    \/ \E t \in Tasks : Semaphore_give_call(t)
    \/ \E t \in Tasks : SemaphoreGuard_drop_call(t)
    \/ \E p \in Interruptible : Isr_enter(p)
    \/ Semaphore_give_from_isr_call
    \/ Isr_exit
    \/ \E t \in Tasks : Resume(t)
    \/ Tick

SpecCount == Init /\ [][NextCount]_vars

\* ---- claims on the semaphore -------------------------------------------

\* C15: the count of a counting semaphore created with (max, initial)
\* stays within 0..max; give and give_from_isr return QueueFull at
\* count = max and Ok, one more, below it; take and lock return Timeout
\* exactly when the count is 0 with the wait used up; the refused calls
\* leave the count unchanged and create no guard.
C15_CountBounds ==
    /\ [](obj.kind = "counting" =>
            made.initial <= made.max /\ Len(obj.items) <= made.max)
    /\ [][ev'.op \in {"give", "give_from_isr"} =>
            IF Len(obj.items) = made.max
            THEN ev'.res = "QueueFull" /\ obj' = obj
            ELSE ev'.res = "Ok" /\ Len(obj'.items) = Len(obj.items) + 1]_vars
    /\ [][ev'.op \in {"sem_take", "sem_lock"} =>
            /\ ev'.res = "Timeout" <=> (Len(obj.items) = 0 /\ ev'.left = 0)
            /\ ev'.res = "Timeout" => obj' = obj /\ guards' = guards
            /\ ev'.res = "Ok" => Len(obj'.items) = Len(obj.items) - 1]_vars

\* C15 witness: a give was refused on a semaphore that started empty and
\* was filled to its maximum while a guard is still live.
C15_Full ==
    /\ obj.kind = "counting" /\ made.max = MaxCap /\ made.initial = 0
    /\ ev.op \in {"give", "give_from_isr"} /\ ev.res = "QueueFull"
    /\ \E t \in Tasks : guards[t] > 0

\* A binary semaphore on which the tasks poll or wait forever.
NextBinary ==
    \/ \E c \in BOOLEAN : Semaphore_new_binary_call(c)
    \/ \E t \in Tasks, w \in {0, MAX_DELAY} : Semaphore_lock_call(t, w)
    \/ \E t \in Tasks, w \in {0, MAX_DELAY} : Semaphore_take_call(t, w)
    \/ \E t \in Tasks : Semaphore_give_call(t)
    \/ \E t \in Tasks : SemaphoreGuard_drop_call(t)
    \/ \E t \in Tasks : Resume(t)

SpecBinary == Init /\ [][NextBinary]_vars

\* C16: on a binary semaphore, a give that succeeds while tasks are
\* blocked in take or lock unblocks one of them, and no task stays blocked
\* on an available semaphore without one having been unblocked for it; the
\* lock of a task that runs again with the semaphore available returns a
\* guard; dropping a guard leaves the semaphore takeable; and a zero-wait
\* take of a takeable semaphore succeeds.
C16_BinaryEndToEnd ==
    /\ [](obj.kind = "binary" /\ obj.state = "live" /\ take_mutex_ready(obj)
            /\ (\E t \in Tasks : tcb[t].st = "blocked")
          => \E u \in Tasks : tcb[u].st = "woken")
    /\ [][obj.kind = "binary" /\ ev'.op = "give" /\ ev'.res = "Ok"
            /\ (\E t \in Tasks : tcb[t].st = "blocked")
          => \E t \in Tasks : tcb[t].st = "blocked" /\ tcb'[t].st = "woken"]_vars
    /\ [][obj.kind = "binary" /\ ev'.op = "sem_lock" /\ take_mutex_ready(obj)
          => /\ ev'.res = "Ok"
             /\ guards'[ev'.t] = guards[ev'.t] + 1
             /\ ~take_mutex_ready(obj')]_vars
    /\ [][obj.kind = "binary" /\ obj.state = "live" /\ ev'.op = "guard_drop"
          => take_mutex_ready(obj')]_vars
    /\ [][obj.kind = "binary" /\ ev'.op = "sem_take" /\ ev'.left = 0
            /\ take_mutex_ready(obj)
          => ev'.res = "Ok"]_vars

\* C16 witness: a give by one task has unblocked another that was blocked
\* in lock with an infinite wait.
C16_Unblocked ==
    /\ obj.kind = "binary" /\ ev.op = "give" /\ ev.res = "Ok"
    /\ \E t \in Tasks \ {ev.t} :
          tcb[t] = [st |-> "woken", api |-> "sem_lock", left |-> MAX_DELAY, item |-> 0]

\* ---- task.rs: notifications -------------------------------------------

AllBits == 2 ^ NotifyBits - 1

\* Task::wait_for_notification(clear_bits_enter, clear_bits_exit, wait_for)
\* by the current task t.
Task_wait_for_notification_call(t, enter, exit, w) ==
    /\ tcb[t].st = "run" /\ ~isr.active
    /\ Attempt(t, "wait", ClearBits(enter, exit), WaitTicks(w))

\* Task::notify_from_isr(context, notification) on the handle of task t.
Task_notify_from_isr_call(t, n) ==
    /\ isr.active
    /\ LET value == to_freertos(n)[1]
           action == to_freertos(n)[2]
           ok == task_notify_isr_ok(ntf[t], action)
           w == IF ntf[t].state = "waiting" THEN t ELSE 0
       IN /\ ntf' = [ntf EXCEPT ![t] = task_notify_isr(@, value, action)]
          /\ tcb' = Woken(tcb, w)
          /\ isr' = [isr EXCEPT
                !.woken = HigherPriorityTaskWoken(isr.woken, w, isr.cur),
                !.set = @ \/ HigherPriorityTaskWoken(0, w, isr.cur) = 1]
          /\ ev' = Ev(0, "notify_from_isr", Task_notify_from_isr(ok), value, 0)
    /\ UNCHANGED <<auxVars, obj, made, data, guards, sent, recvd, deletes, uaf>>

\* ---- an interrupt handler over a queue, a semaphore and the tasks -------

\* The tasks wait for the handler: on the queue or the semaphore it feeds
\* and on the notifications it posts.  Which tasks an operation of the
\* handler unblocks decides what it does to the context's flag, not how
\* long they would still have waited nor what the payload is, so here a
\* task polls or waits forever, clears all bits on exit, and the handler
\* sends one item value and posts a notification that cannot fail
\* (NoAction) or one that can (SetValue).
NextIsr ==
    \/ \E k \in 1..MaxCap, c \in BOOLEAN : Queue_new(k, c)
    \/ \E c \in BOOLEAN : Semaphore_new_binary_call(c)
    \/ \E t \in Tasks, w \in {0, MAX_DELAY} : Queue_receive_call(t, w)
    \/ \E t \in Tasks, w \in {0, MAX_DELAY} : Semaphore_take_call(t, w)
    \/ \E t \in Tasks, w \in {0, MAX_DELAY} :
          Task_wait_for_notification_call(t, 0, AllBits, w)
    \/ \E p \in Interruptible : Isr_enter(p)
    \/ Queue_send_from_isr_call(1)
    \/ Semaphore_give_from_isr_call
    \/ \E t \in Tasks, n \in {<<"NoAction", 0>>, <<"SetValue", AllBits>>} :
          Task_notify_from_isr_call(t, n)
    \/ Isr_exit
    \/ \E t \in Tasks : Resume(t)

SpecIsr == Init /\ [][NextIsr]_vars

\* ---- task.rs: starting a task -------------------------------------------

\* Task::spawn, `let mut f = Box::new(f)`: the closure moves to the heap.
Task_spawn_box(i) ==
    /\ spawn[i].pc = "none"
    /\ spawn' = [spawn EXCEPT ![i].pc = "boxed", ![i].box = "live"]
    /\ UNCHANGED <<objVars, tmr, crit, restVars, ev>>

\* Task::spawn, glue::create_task: xTaskCreate either fails or makes the
\* new task ready to run boxed_thread_start on the pointer to the box.
Task_spawn_create_task(i, success) ==
    /\ spawn[i].pc = "boxed"
    /\ spawn' = [spawn EXCEPT
                   ![i].pc = IF success THEN "created" ELSE "failed",
                   ![i].child = IF success THEN "ready" ELSE "none"]
    /\ UNCHANGED <<objVars, tmr, crit, restVars, ev>>

\* Task::spawn frees the box when it returns: mem::forget(f) keeps it on
\* success, f goes out of scope on failure.
Task_spawn_frees_Always(success) == TRUE
Task_spawn_frees(success) == ~success

\* The box after one more free of it.
Freed(s, who) ==
    [s EXCEPT !.box = "freed", !.frees = @ + 1,
              !.bad = @ \/ s.box # "live",
              !.by = IF s.by \in {"none", who} THEN who ELSE "both"]

\* Task::spawn returns Ok(Task) or Err(OutOfMemory).
Task_spawn_return(i) ==
    /\ spawn[i].pc \in {"created", "failed"}
    /\ LET success == spawn[i].pc = "created"
           s == IF Task_spawn_frees(success) THEN Freed(spawn[i], "spawner")
                ELSE spawn[i]
       IN spawn' = [spawn EXCEPT ![i] =
                      [s EXCEPT !.pc = "returned",
                                !.res = IF success THEN "Ok" ELSE "OutOfMemory"]]
    /\ UNCHANGED <<objVars, tmr, crit, restVars, ev>>

\* boxed_thread_start in the new task: Box::from_raw(arg) takes the box
\* over and b() runs the closure.
boxed_thread_start_call(i) ==
    /\ spawn[i].child = "ready"
    /\ spawn' = [spawn EXCEPT ![i].child = "ran", ![i].runs = @ + 1,
                              ![i].bad = @ \/ spawn[i].box # "live"]
    /\ UNCHANGED <<objVars, tmr, crit, restVars, ev>>

\* boxed_thread_start: the call consumed b, its box is freed.
boxed_thread_start_free(i) ==
    /\ spawn[i].child = "ran"
    /\ spawn' = [spawn EXCEPT ![i] = [Freed(@, "trampoline") EXCEPT !.child = "freed"]]
    /\ UNCHANGED <<objVars, tmr, crit, restVars, ev>>

\* boxed_thread_start: glue::delete_task(None), the task deletes itself.
boxed_thread_start_delete_task(i) ==
    /\ spawn[i].child = "freed"
    /\ spawn' = [spawn EXCEPT ![i].child = "deleted"]
    /\ UNCHANGED <<objVars, tmr, crit, restVars, ev>>

NextSpawn ==
    \/ \E i \in Spawns : Task_spawn_box(i)
    \/ \E i \in Spawns, c \in BOOLEAN : Task_spawn_create_task(i, c)
    \/ \E i \in Spawns : Task_spawn_return(i)
    \/ \E i \in Spawns : boxed_thread_start_call(i)
    \/ \E i \in Spawns : boxed_thread_start_free(i)
    \/ \E i \in Spawns : boxed_thread_start_delete_task(i)

SpecSpawn == Init /\ [][NextSpawn]_vars

\* ---- glue.rs: the timer service task -----------------------------------

\* xTimerCreate: a dormant timer with the period and reload mode given.
timer_create(t, period, auto_reload) ==
    [t EXCEPT !.kernel = "dormant", !.period = period, !.reload = auto_reload]

\* xTimerGenericCommandFromTask can complete: the command queue has room.
timer_command_ready(t) == Len(t.queue) < MaxTimerQueue

\* xTimerGenericCommandFromTask completing: the command is queued for the
\* timer service task (timer_start, timer_stop, timer_change_period,
\* timer_delete differ in the command id and value only).
timer_command(t, op, arg) ==
    [t EXCEPT !.queue = Append(@, <<op, arg>>),
              !.started = @ \/ op = "start",
              !.changed = @ \/ op = "change_period"]

\* prvProcessReceivedCommands for the command at the head of the queue:
\* start makes the timer active, stop dormant, change-period sets the
\* period and makes the timer active, delete frees the kernel timer.
timer_process(t) ==
    LET c == Head(t.queue)
        u == [t EXCEPT !.queue = Tail(@)]
    IN CASE c[1] = "start" -> [u EXCEPT !.kernel = "active"]
         [] c[1] = "stop" -> [u EXCEPT !.kernel = "dormant"]
         [] c[1] = "change_period" -> [u EXCEPT !.kernel = "active", !.period = c[2]]
         [] c[1] = "delete" -> [u EXCEPT !.kernel = "deleted"]

\* prvProcessExpiredTimer: the callback is called through the timer id; an
\* auto-reload timer stays active, a one-shot timer becomes dormant.
timer_expire(t) ==
    [t EXCEPT !.fired = @ + 1,
              !.bad = @ \/ t.box # "live",
              !.kernel = IF t.reload THEN "active" ELSE "dormant"]

\* ---- timers.rs ----------------------------------------------------------

\* Timer::start / stop / change_period: Ok(()) or Err(Timeout).
Timer_command_result_AlwaysOk(ok) == "Ok"
Timer_command_result(ok) == IF ok THEN "Ok" ELSE "Timeout"

\* Timer::detach: self.destructor = None.
Timer_detach_destructor_Kept(d) == d
Timer_detach_destructor(d) == FALSE

\* The block time of the timer_delete in Drop: Ticks::milliseconds(1000),
\* a finite wait, here the longest finite wait.
Timer_drop_block_time == MaxWait

\* The call in progress returns: ok is the kernel's answer.  The delete
\* of Drop ignores it and ends the drop.
TimerReturn(op, arg, left, ok) ==
    /\ tmr' = [(IF ok THEN timer_command(tmr, op, arg) ELSE tmr) EXCEPT
                 !.call = NoCall,
                 !.pc = IF op = "delete" THEN "dropped" ELSE @]
    /\ ev' = Ev(0, op, IF op = "delete" THEN "none" ELSE Timer_command_result(ok),
                arg, left)
    /\ UNCHANGED <<objVars, spawn, crit, restVars>>

\* A command call with `left` ticks of its block time remaining: queue
\* the command, give up, or block on the full command queue.
TimerAttempt(op, arg, left) ==
    IF timer_command_ready(tmr) THEN TimerReturn(op, arg, left, TRUE)
    ELSE IF left = 0 THEN TimerReturn(op, arg, left, FALSE)
    ELSE /\ tmr' = [tmr EXCEPT !.call = [st |-> "blocked", op |-> op,
                                         arg |-> arg, left |-> left],
                               !.pc = IF op = "delete" THEN "deleting" ELSE @]
         /\ ev' = Ev(0, op, "Blocked", arg, left)
         /\ UNCHANGED <<objVars, spawn, crit, restVars>>

\* TimerBuilder::create -> Timer::spawn: the callback is boxed and
\* timer_create called; the box is forgotten on success and dropped with
\* Err(OutOfMemory) on failure.
Timer_create(period, auto_reload, created) ==
    /\ tmr.pc = "none"
    /\ IF created
       THEN /\ tmr' = [timer_create(tmr, period, auto_reload) EXCEPT
                        !.pc = "live", !.destructor = TRUE, !.box = "live"]
            /\ ev' = Ev(0, "create", "Ok", period, 0)
       ELSE /\ tmr' = [tmr EXCEPT !.pc = "failed", !.box = "freed", !.frees = 1]
            /\ ev' = Ev(0, "create", "OutOfMemory", period, 0)
    /\ UNCHANGED <<objVars, spawn, crit, restVars>>

\* Timer::start(block_time)
Timer_start(w) ==
    /\ tmr.pc = "live" /\ tmr.call.st = "none"
    /\ TimerAttempt("start", 0, WaitTicks(w))

\* Timer::stop(block_time)
Timer_stop(w) ==
    /\ tmr.pc = "live" /\ tmr.call.st = "none"
    /\ TimerAttempt("stop", 0, WaitTicks(w))

\* Timer::change_period(block_time, new_period)
Timer_change_period(w, new_period) ==
    /\ tmr.pc = "live" /\ tmr.call.st = "none"
    /\ TimerAttempt("change_period", WaitTicks(new_period), WaitTicks(w))

\* A blocked command call runs again: the queue got room or the block
\* time ran out.
Timer_call_resume ==
    /\ tmr.call.st = "blocked"
    /\ timer_command_ready(tmr) \/ tmr.call.left = 0
    /\ TimerAttempt(tmr.call.op, tmr.call.arg, tmr.call.left)

\* The tick interrupt while a command call is blocked.
Timer_tick ==
    /\ tmr.call.st = "blocked"
    /\ tmr.call.left \notin {0, MAX_DELAY}
    /\ tmr' = [tmr EXCEPT !.call.left = @ - 1]
    /\ ev' = Ev(0, "tick", "none", 0, 0)
    /\ UNCHANGED <<objVars, spawn, crit, restVars>>

\* Timer::detach(mut self)
Timer_detach ==
    /\ tmr.pc = "live" /\ tmr.call.st = "none"
    /\ tmr' = [tmr EXCEPT !.pc = "detach", !.detached = TRUE,
                          !.destructor = Timer_detach_destructor(@)]
    /\ ev' = Ev(0, "detach", "none", 0, 0)
    /\ UNCHANGED <<objVars, spawn, crit, restVars>>

\* Drop for Timer, when its owner lets go of it or at the end of detach:
\* with a destructor the callback's box is freed and then timer_delete
\* called; without one nothing happens.
Timer_drop ==
    /\ tmr.pc \in {"live", "detach"} /\ tmr.call.st = "none"
    /\ IF tmr.destructor
       THEN /\ tmr' = [tmr EXCEPT !.pc = "deleting", !.box = "freed",
                                  !.frees = @ + 1,
                                  !.bad = @ \/ tmr.box # "live"]
            /\ ev' = Ev(0, "drop", "none", 0, 0)
       ELSE /\ tmr' = [tmr EXCEPT !.pc = "dropped"]
            /\ ev' = Ev(0, "drop", "none", 0, 0)
    /\ UNCHANGED <<objVars, spawn, crit, restVars>>

\* Drop for Timer: glue::timer_delete(self.handle, 1000 ms).
Timer_drop_delete ==
    /\ tmr.pc = "deleting" /\ tmr.call.st = "none"
    /\ TimerAttempt("delete", 0, Timer_drop_block_time)

\* The timer service task takes the next command from its queue.
Timer_service_command ==
    /\ tmr.queue # <<>>
    /\ tmr' = timer_process(tmr)
    /\ ev' = Ev(0, "service", "none", 0, 0)
    /\ UNCHANGED <<objVars, spawn, crit, restVars>>

\* The timer service task finds the timer expired and calls
\* Timer::timer_callback.
Timer_service_expire ==
    /\ tmr.kernel = "active"
    /\ tmr.fired < MaxFires
    /\ tmr' = timer_expire(tmr)
    /\ ev' = Ev(0, "callback", "none", 0, 0)
    /\ UNCHANGED <<objVars, spawn, crit, restVars>>

NextTimer ==
    \/ \E p \in 1..MaxPeriod, r \in BOOLEAN, c \in BOOLEAN : Timer_create(p, r, c)
    \/ \E w \in Waits : Timer_start(w)
    \/ \E w \in Waits : Timer_stop(w)
    \/ \E w \in Waits, p \in 1..MaxPeriod : Timer_change_period(w, p)
    \/ Timer_call_resume
    \/ Timer_tick
    \/ Timer_detach
    \/ Timer_drop
    \/ Timer_drop_delete
    \/ Timer_service_command
    \/ Timer_service_expire

SpecTimer == Init /\ [][NextTimer]_vars

\* ---- claims on the timer ------------------------------------------------

\* C12: once a Timer that was never detached has been dropped, the
\* callback's box has been freed exactly once and the kernel timer is
\* deleted, or its delete command is on its way to the service task.
C12_DropDeletesAndFrees ==
    tmr.pc = "dropped" /\ ~tmr.detached =>
        /\ tmr.frees = 1
        /\ \/ tmr.kernel = "deleted"
           \/ \E k \in 1..Len(tmr.queue) : tmr.queue[k][1] = "delete"

\* C13: detach and the drop that ends it leave the kernel timer (state,
\* period, pending commands) and the callback's box as they were; from
\* then on no delete command is issued, the box is never freed, and every
\* firing finds the callback alive.
C13_DetachKeeps ==
    /\ [](tmr.detached =>
            /\ tmr.box = "live" /\ tmr.frees = 0 /\ ~tmr.bad
            /\ tmr.kernel # "deleted" /\ tmr.call.op # "delete"
            /\ \A k \in 1..Len(tmr.queue) : tmr.queue[k][1] # "delete")
    /\ [][tmr'.detached /\ tmr'.pc # tmr.pc =>
            /\ tmr'.kernel = tmr.kernel /\ tmr'.period = tmr.period
            /\ tmr'.queue = tmr.queue /\ tmr'.box = tmr.box]_vars

\* C13 witness: the callback of an active timer fired after the detached
\* Timer was dropped.
C13_FiredDetached ==
    /\ tmr.detached /\ tmr.pc = "dropped"
    /\ ev.op = "callback" /\ tmr.kernel = "active"

\* C14, as stated: start, stop and change_period return Ok exactly when
\* their command was queued and Timeout exactly when it was not, which
\* happens only with the block time used up on a full queue and changes
\* nothing of the timer; and the callback is not invoked unless a start
\* command has been accepted.
C14_Commands ==
    /\ [][ev'.op \in {"start", "stop", "change_period"} /\ ev'.res # "Blocked" =>
            LET queued == tmr'.queue = Append(tmr.queue, <<ev'.op, ev'.item>>) IN
            /\ ev'.res = "Ok" <=> queued
            /\ ev'.res = "Timeout" <=> ~queued
            /\ ev'.res = "Timeout" =>
                  /\ ev'.left = 0 /\ ~timer_command_ready(tmr)
                  /\ tmr'.queue = tmr.queue /\ tmr'.kernel = tmr.kernel
                  /\ tmr'.period = tmr.period]_vars
    /\ [](tmr.fired > 0 => tmr.started)

\* C14, amended: as above, but the callback is not invoked unless a start
\* or a change_period command has been accepted.
C14_CommandsOrPeriod ==
    /\ [][ev'.op \in {"start", "stop", "change_period"} /\ ev'.res # "Blocked" =>
            LET queued == tmr'.queue = Append(tmr.queue, <<ev'.op, ev'.item>>) IN
            /\ ev'.res = "Ok" <=> queued
            /\ ev'.res = "Timeout" <=> ~queued
            /\ ev'.res = "Timeout" =>
                  /\ ev'.left = 0 /\ ~timer_command_ready(tmr)
                  /\ tmr'.queue = tmr.queue /\ tmr'.kernel = tmr.kernel
                  /\ tmr'.period = tmr.period]_vars
    /\ [](tmr.fired > 0 => tmr.started \/ tmr.changed)

\* C14 witness: a command timed out on the full queue of a timer whose
\* callback has fired after a change_period and no start.
C14_TimedOut ==
    /\ ev.op \in {"start", "stop", "change_period"} /\ ev.res = "Timeout"
    /\ tmr.fired > 0 /\ ~tmr.started /\ Len(tmr.queue) = MaxTimerQueue

\* ---- claims on starting a task -----------------------------------------

\* C11: the boxed closure is freed at most once and never used after it
\* was freed; when task creation fails start returns OutOfMemory, the
\* spawner has freed the closure and it is never run; when it succeeds
\* only the trampoline frees it, after running it once, and the task that
\* deleted itself has run and freed it exactly once.
C11_ClosureFreedOnce ==
    \A i \in Spawns :
       LET s == spawn[i] IN
       /\ s.frees <= 1 /\ s.runs <= 1 /\ ~s.bad
       /\ s.pc = "failed" => s.child = "none" /\ s.runs = 0
       /\ s.res = "OutOfMemory" =>
             s.frees = 1 /\ s.by = "spawner" /\ s.runs = 0 /\ s.child = "none"
       /\ s.pc = "created" \/ s.res = "Ok" =>
             /\ s.by \in {"none", "trampoline"}
             /\ s.frees = 1 => s.runs = 1
             /\ s.child \in {"ready", "ran"} => s.box = "live"
       /\ s.child = "deleted" =>
             s.runs = 1 /\ s.frees = 1 /\ s.by = "trampoline"

\* C11 witness: the new task ran to completion and deleted itself before
\* start returned in the spawner, and another start failed.
C11_RanBeforeReturn ==
    \E i, j \in Spawns :
       /\ spawn[i].pc = "created" /\ spawn[i].child = "deleted"
       /\ spawn[j].res = "OutOfMemory"

\* ---- claims on the interrupt context ----------------------------------

\* C9: a yield from ISR is never requested while the handler runs; when
\* the context is dropped it is requested once if some from-ISR operation
\* of this context set the flag and not at all otherwise; and a flag that
\* is set stays set through later operations on the context.
C9_DeferredYield ==
    /\ [](isr.active => isr.yields = 0)
    /\ [][isr.active /\ ~isr'.active =>
            isr'.yields = IF isr.set THEN 1 ELSE 0]_vars
    /\ [][isr.active /\ isr'.active /\ isr.woken = 1 => isr'.woken = 1]_vars

\* C9 witness: a handler whose operations set the flag has returned and
\* its context requested the yield.
C9_Yielded ==
    /\ ev.op = "isr_exit" /\ ~isr.active /\ isr.yields = 1
    /\ \E t \in Tasks : tcb[t].st = "woken" /\ tcb[t].api = "wait"

\* ---- claims on the handles ---------------------------------------------

\* C10: every kernel call targets a handle that was created and is not
\* yet deleted, and a handle is deleted at most once.
C10_NoUseAfterDelete == ~uaf /\ deletes <= 1

\* ---- claims on the queue ------------------------------------------------

\* C5: receive returns the items in exactly the order in which the sends
\* (from tasks and from the handler) completed: what was sent is what was
\* received followed by what the queue still holds, nothing lost,
\* duplicated or reordered.
C5_Fifo == obj.kind = "queue" => sent = recvd \o obj.items

\* C5 witness: two different items were sent and both received.
C5_TwoReceived ==
    /\ Len(recvd) = 2 /\ recvd[1] # recvd[2]
    /\ ev.op = "receive" /\ ev.res = "Ok"

\* C6: a queue created with capacity K never holds more than K items; a
\* send whose wait is zero succeeds while fewer than K are held and
\* returns QueueSendTimeout, the queue unchanged, when K are held.
C6_Capacity ==
    /\ [](obj.kind = "queue" => Len(obj.items) <= made.max)
    /\ [][ev'.op = "send" /\ ev'.left = 0 =>
            IF Len(obj.items) < made.max
            THEN ev'.res = "Ok" /\ Len(obj'.items) = Len(obj.items) + 1
            ELSE ev'.res = "QueueSendTimeout" /\ obj' = obj /\ sent' = sent]_vars

\* C6 witness: the send after the K-th was refused.
C6_Refused ==
    /\ made.max = MaxCap /\ Len(obj.items) = MaxCap
    /\ ev.op = "send" /\ ev.res = "QueueSendTimeout"

\* C7: receive returns QueueReceiveTimeout exactly when the queue is empty
\* once its wait has run out, and then leaves the queue unchanged; it
\* returns Ok(item) only for the item it removed from the head.
C7_Receive ==
    [][ev'.op = "receive" =>
          /\ ev'.res = "QueueReceiveTimeout" <=> (obj.items = <<>> /\ ev'.left = 0)
          /\ ev'.res = "QueueReceiveTimeout" => obj' = obj /\ recvd' = recvd
          /\ ev'.res = "Ok" =>
                /\ obj.items # <<>>
                /\ ev'.item = Head(obj.items)
                /\ obj'.items = Tail(obj.items)]_vars

\* C7 witness: a receive that blocked timed out on a queue that was used.
C7_TimedOut ==
    /\ ev.op = "receive" /\ ev.res = "QueueReceiveTimeout"
    /\ sent # <<>> /\ sent = recvd

\* C8: send_from_isr completes inside the handler without waiting: on a
\* full queue it returns QueueFull and changes nothing; otherwise it
\* appends the item at the back and sets the context's flag if the task it
\* unblocked has a higher priority than the interrupted one. It requests
\* no yield itself.
C8_SendFromIsr ==
    [][ev'.op = "send_from_isr" =>
          /\ isr.active /\ isr'.active /\ isr'.yields = isr.yields
          /\ \A t \in Tasks : tcb'[t].st = "blocked" => tcb[t].st = "blocked"
          /\ IF Len(obj.items) = obj.length
             THEN ev'.res = "QueueFull" /\ obj' = obj /\ isr' = isr /\ tcb' = tcb
             ELSE /\ ev'.res = "Ok"
                  /\ obj'.items = Append(obj.items, ev'.item)
                  /\ isr'.woken = 1 <=>
                        \/ isr.woken = 1
                        \/ \E w \in Tasks : /\ tcb[w].st = "blocked"
                                             /\ tcb'[w].st = "woken"
                                             /\ Prio(w) > isr.cur]_vars

\* C8 witness: a send from the handler woke a receiver and set the flag.
C8_Woke ==
    /\ ev.op = "send_from_isr" /\ ev.res = "Ok"
    /\ isr.active /\ isr.woken = 1
    /\ \E t \in Tasks : tcb[t].st = "woken" /\ tcb[t].api = "receive"

\* ---- claims on the mutex ------------------------------------------------

\* C1: for a normal Mutex at most one MutexGuard is live at any instant,
\* whatever the interleaving of lock calls and guard drops.
C1_AtMostOneGuard == obj.kind = "mutex" => TotalGuards <= 1

\* C1 witness: a guard is live while another task's lock has timed out.
C1_Contended ==
    /\ obj.kind = "mutex"
    /\ \E t, u \in Tasks : t # u /\ guards[t] = 1
                           /\ ev = Ev(u, "lock", "MutexTimeout", 0, 0)

\* C2: for a RecursiveMutex only the holder re-locks: while a task has a
\* live guard no other task has one, the holder is that task, and the
\* kernel's recursive count equals the guards it still has to drop.
C2_RecursiveCounting ==
    obj.kind = "recursive" =>
        \A t \in Tasks :
            guards[t] > 0 =>
                /\ \A u \in Tasks \ {t} : guards[u] = 0
                /\ obj.holder = t
                /\ obj.rec = guards[t]

\* C3: the mutex stays held from a successful lock until the drop of that
\* guard: while any guard is live the mutex is not available.
C3_HeldWhileGuardLive ==
    obj.kind \in MutexKinds =>
        \A t \in Tasks : guards[t] > 0 => ~take_mutex_ready(obj)

\* C4: a lock that cannot acquire the mutex when its wait has run out
\* returns MutexTimeout (and only then), creates no guard, and leaves the
\* mutex's holder, its recursion count and the protected value unchanged.
C4_TimeoutNoEffect ==
    [][ev'.op = "lock" =>
          LET t == ev'.t
              timedOut == ~CallReady("lock", obj, t) /\ ev'.left = 0
          IN /\ timedOut <=> ev'.res = "MutexTimeout"
             /\ timedOut =>
                   /\ guards' = guards
                   /\ obj' = obj
                   /\ data' = data]_vars

\* C4 witness: a lock timed out against a holder that re-locked and wrote.
C4_TimedOut ==
    /\ ev.op = "lock" /\ ev.res = "MutexTimeout"
    /\ \E u \in Tasks \ {ev.t} : guards[u] = 2 /\ obj.holder = u
    /\ data # 0

\* ---- task.rs: notifications between tasks -------------------------------

\* The name of a notify call in the event record, by its notification.
NotifyOp(n) ==
    CASE n[1] = "NoAction" -> "notify_NoAction"
      [] n[1] = "SetBits" -> "notify_SetBits"
      [] n[1] = "Increment" -> "notify_Increment"
      [] n[1] = "OverwriteValue" -> "notify_OverwriteValue"
      [] n[1] = "SetValue" -> "notify_SetValue"

\* Task::notify(notification) by task c on the handle of task t.
Task_notify_call(c, t, n) ==
    /\ tcb[c].st = "run" /\ ~isr.active
    /\ LET value == to_freertos(n)[1]
           action == to_freertos(n)[2]
           ok == task_notify_ok(ntf[t], action)
           w == IF ntf[t].state = "waiting" THEN t ELSE 0
       IN /\ ntf' = [ntf EXCEPT ![t] = task_notify(@, value, action)]
          /\ tcb' = Woken(tcb, w)
          /\ ev' = Ev(t, NotifyOp(n), Task_notify(ok), value, 0)
    /\ UNCHANGED <<auxVars, obj, made, data, guards, isr, sent, recvd, deletes, uaf>>

\* Task::take_notification(clear, wait_for) by the current task t.
Task_take_notification_call(t, clear, w) ==
    /\ tcb[t].st = "run" /\ ~isr.active
    /\ Attempt(t, "take_notification", IF clear THEN 1 ELSE 0, WaitTicks(w))

\* The masks wait_for_notification is called with.
Masks == {0, 1, AllBits}

\* The notification state of a task is its own: one task takes and waits,
\* every task (itself included) notifies it.
Notified == {1}

NextNotify ==
    \/ \E c \in Tasks, t \in Notified, n \in TaskNotifications :
          Task_notify_call(c, t, n)
    \/ \E t \in Notified, clear \in BOOLEAN, w \in Waits :
          Task_take_notification_call(t, clear, w)
    \/ \E t \in Notified, enter, exit \in Masks, w \in Waits :
          Task_wait_for_notification_call(t, enter, exit, w)
    \/ \E t \in Tasks : Resume(t)
    \/ Tick

SpecNotify == Init /\ [][NextNotify]_vars

\* The try-set notification alone: every notification sent is a SetValue.
NextTrySet ==
    \/ \E c \in Tasks, t \in Notified, v \in NotifyValues :
          Task_notify_call(c, t, <<"SetValue", v>>)
    \/ \E t \in Notified, clear \in BOOLEAN, w \in Waits :
          Task_take_notification_call(t, clear, w)
    \/ \E t \in Notified, enter, exit \in Masks, w \in Waits :
          Task_wait_for_notification_call(t, enter, exit, w)
    \/ \E t \in Tasks : Resume(t)
    \/ Tick

SpecTrySet == Init /\ [][NextTrySet]_vars

\* C17: notify(SetValue(v1)) to a task with no notification pending sets
\* its notification value to v1 and marks it pending; a notify(SetValue(v2))
\* that follows it with no step in between leaves the value as it was; and
\* notify returns nothing, so neither call signals an error.
C17_TrySetIfClear ==
    /\ [][ev'.op = "notify_SetValue" /\ ntf[ev'.t].state # "received"
          => /\ ntf'[ev'.t] = [state |-> "received", value |-> ev'.item]
             /\ ev'.res = "none"]_vars
    /\ [][ev.op = "notify_SetValue" /\ ev'.op = "notify_SetValue" /\ ev'.t = ev.t
          => /\ ntf[ev.t].state = "received"
             /\ ntf'[ev.t] = ntf[ev.t]
             /\ ev'.res = "none"]_vars

\* C17 witness: a SetValue(v2) was sent while the v1 of an earlier SetValue
\* was still pending, v1 # v2, and v1 is still the value.
C17_SecondSkipped ==
    /\ ev.op = "notify_SetValue"
    /\ ntf[ev.t].state = "received"
    /\ ntf[ev.t].value \notin {0, ev.item}

\* The step is one of a take_notification(clear, _) call of task t: the
\* call itself, or the task running again after its wait.
Taking(t, clear) ==
    \/ \E w \in Waits : Task_take_notification_call(t, clear, w)
    \/ /\ Resume(t)
       /\ tcb[t].api = "take_notification"
       /\ tcb[t].item = IF clear THEN 1 ELSE 0

\* C18 as stated: a take_notification that returns with a notification
\* pending returns the value and leaves zero (clear) or the value less one
\* behind; one that returns with none pending returns 0 and leaves the
\* value alone.
C18_TakePending ==
    [][\A t \in Notified, clear \in BOOLEAN :
          Taking(t, clear) /\ ev'.res # "Blocked"
          => IF ntf[t].state = "received"
             THEN /\ ev'.item = ntf[t].value
                  /\ ntf'[t].value = IF clear THEN 0 ELSE ntf[t].value - 1
             ELSE /\ ev'.item = 0
                  /\ ntf'[t].value = ntf[t].value]_vars

\* C18, amended: take_notification goes by the value, not by the pending
\* flag. With a value that is not zero it returns at once; whenever it
\* returns, it returns the value as it is then; a value that is not zero is
\* then set to zero (clear) or decremented by one, a zero value is returned
\* as 0 and left alone; it waits only while the value is zero and returns 0
\* only when its wait was zero, ran out or was ended by a notification.
C18_TakeValue ==
    [][\A t \in Notified, clear \in BOOLEAN :
          Taking(t, clear)
          => /\ ntf[t].value # 0 => ev'.res # "Blocked"
             /\ ev'.res # "Blocked"
                => /\ ev'.item = ntf[t].value
                   /\ ntf'[t].state = "none"
                   /\ ntf'[t].value = IF ntf[t].value = 0 THEN 0
                                      ELSE IF clear THEN 0
                                      ELSE ntf[t].value - 1
                   /\ ntf[t].value = 0
                      => \/ ev'.left = 0
                         \/ tcb[t].st = "woken" /\ ntf[t].state = "received"]_vars

\* C18 witness: a notification ended the wait of a take_notification with
\* ticks to spare, the value was zero, and the call returned 0.
C18_WokenWithZero ==
    /\ ev.op = "take_notification" /\ ev.res = "none"
    /\ ev.item = 0 /\ ev.left > 0
    /\ ntf[ev.t] = NoNotification

\* The step is one of a wait_for_notification(enter, exit, _) call of task
\* t: the call itself, or the task running again after its wait.
WaitingFor(t, enter, exit) ==
    \/ \E w \in Waits : Task_wait_for_notification_call(t, enter, exit, w)
    \/ /\ Resume(t)
       /\ tcb[t].api = "wait"
       /\ tcb[t].item = ClearBits(enter, exit)

enter_critical(mask) == [mask |-> "masked", previous_state |-> mask]

exit_critical_Opens(mask, previous_state) == "open"

\* vTaskExitCriticalFromISR(previous_state): the mask is set back.
exit_critical(mask, previous_state) == previous_state

\* s without its i-th element.
Without(s, i) == SubSeq(s, 1, i - 1) \o SubSeq(s, i + 1, Len(s))

\* CriticalSection::enter by the running task.
CriticalSection_enter ==
    /\ Len(crit.guards) < MaxNest
    /\ LET r == enter_critical(crit.mask)
       IN /\ crit' = [crit EXCEPT
                !.mask = r.mask,
                !.guards = Append(@, [saved |-> r.previous_state,
                                      before |-> crit.mask,
                                      owner |-> crit.cur,
                                      data |-> FALSE])]
          /\ ev' = Ev(crit.cur, "crit_enter", "none", 0, Len(crit.guards))
    /\ UNCHANGED <<objVars, spawn, tmr, restVars>>

\* Drop for CriticalSection: the running task drops its i-th oldest guard.
CriticalSection_drop(i) ==
    /\ i \in 1..Len(crit.guards)
    /\ crit.guards[i].owner = crit.cur
    /\ crit' = [crit EXCEPT
          !.mask = exit_critical(crit.mask, crit.guards[i].saved),
          !.guards = Without(@, i),
          !.nested = IF Len(crit.guards) = 1 THEN TRUE
                     ELSE @ /\ i = Len(crit.guards)]
    /\ ev' = Ev(crit.cur, "crit_drop", "none", 0, Len(crit.guards))
    /\ UNCHANGED <<objVars, spawn, tmr, restVars>>

\* Code outside every critical section masks or unmasks the interrupts:
\* the state an outermost enter finds.
Interrupts_set_mask(m) ==
    /\ crit.guards = <<>>
    /\ crit' = [crit EXCEPT !.mask = m]
    /\ ev' = Ev(crit.cur, "set_mask", "none", 0, 0)
    /\ UNCHANGED <<objVars, spawn, tmr, restVars>>

\* The scheduler preempts the running task for task t: only with the
\* interrupts open.
Preempt(t) ==
    /\ crit.mask = "open"
    /\ t # crit.cur
    /\ crit' = [crit EXCEPT !.cur = t]
    /\ ev' = Ev(t, "preempt", "none", 0, 0)
    /\ UNCHANGED <<objVars, spawn, tmr, restVars>>

NextCritical ==
    \/ CriticalSection_enter
    \/ \E i \in 1..MaxNest : CriticalSection_drop(i)
    \/ \E m \in InterruptMasks : Interrupts_set_mask(m)
    \/ \E t \in Tasks : Preempt(t)

SpecCritical == Init /\ [][NextCritical]_vars

\* C20: while the guards are dropped last-entered first, preemption is
\* disabled whenever a guard is live and the running task is not switched;
\* dropping an inner guard leaves preemption disabled; dropping the
\* outermost guard sets the interrupt mask to what it was before that
\* guard's enter.
C20_NestedCritical ==
    /\ [](crit.nested /\ crit.guards # <<>> => crit.mask = "masked")
    /\ [][crit.nested /\ crit.guards # <<>> => crit'.cur = crit.cur]_vars
    /\ [][/\ ev'.op = "crit_drop" /\ crit.nested /\ crit'.nested
          /\ Len(crit.guards) > 1
          => crit'.mask = "masked"]_vars
    /\ [][/\ ev'.op = "crit_drop" /\ crit.nested /\ Len(crit.guards) = 1
          => crit'.mask = crit.guards[1].before]_vars

\* C20 witness: an inner guard was dropped, the outermost one, entered with
\* preemption enabled, is still live, and preemption is still disabled.
C20_InnerDropped ==
    /\ ev.op = "crit_drop" /\ crit.nested
    /\ Len(crit.guards) = 1
    /\ crit.guards[1].before = "open"
    /\ crit.mask = "masked"

\* ---- critical.rs: ExclusiveData ----------------------------------------

\* The live guards that give access to the data of the cell.
DataGuards ==
    Cardinality({i \in 1..Len(crit.guards) : crit.guards[i].data})
      + crit.isrGuards

\* ExclusiveData::lock by the running task: a guard over the data whose
\* _lock is CriticalSection::enter().
ExclusiveData_lock ==
    /\ ~isr.active
    /\ Len(crit.guards) < MaxNest
    /\ LET r == enter_critical(crit.mask)
       IN /\ crit' = [crit EXCEPT
                !.mask = r.mask,
                !.guards = Append(@, [saved |-> r.previous_state,
                                      before |-> crit.mask,
                                      owner |-> crit.cur,
                                      data |-> TRUE])]
          /\ ev' = Ev(crit.cur, "data_lock", "Ok", 0, DataGuards)
    /\ UNCHANGED <<objVars, spawn, tmr, restVars>>

\* The running task drops an ExclusiveDataGuard: its _lock is dropped.
ExclusiveDataGuard_drop(i) ==
    /\ ~isr.active
    /\ i \in 1..Len(crit.guards)
    /\ crit.guards[i].data
    /\ CriticalSection_drop(i)

\* An interrupt the kernel's mask lets through enters its handler, which
\* makes its InterruptContext.
ExclusiveData_isr_enter ==
    /\ ~isr.active
    /\ crit.mask = "open"
    /\ isr' = InterruptContext_new(Prio(crit.cur))
    /\ ev' = Ev(0, "isr_enter", "none", 0, DataGuards)
    /\ UNCHANGED <<auxVars, ntf, obj, made, data, tcb, guards, sent, recvd, deletes, uaf>>

\* ExclusiveData::lock_from_isr(context) in the handler: a guard over the
\* data, nothing else.
ExclusiveData_lock_from_isr ==
    /\ isr.active
    /\ crit.isrGuards < MaxNest
    /\ crit' = [crit EXCEPT !.isrGuards = @ + 1]
    /\ ev' = Ev(0, "data_lock_from_isr", "Ok", 0, DataGuards)
    /\ UNCHANGED <<objVars, spawn, tmr, restVars>>

\* The handler drops an ExclusiveDataGuardIsr.
ExclusiveDataGuardIsr_drop ==
    /\ isr.active
    /\ crit.isrGuards > 0
    /\ crit' = [crit EXCEPT !.isrGuards = @ - 1]
    /\ ev' = Ev(0, "data_guard_isr_drop", "none", 0, DataGuards)
    /\ UNCHANGED <<objVars, spawn, tmr, restVars>>

\* The handler returns, its guards dropped.
ExclusiveData_isr_exit ==
    /\ crit.isrGuards = 0
    /\ Isr_exit

NextExclusive ==
    \/ ExclusiveData_lock
    \/ \E i \in 1..MaxNest : ExclusiveDataGuard_drop(i)
    \/ ExclusiveData_isr_enter
    \/ ExclusiveData_lock_from_isr
    \/ ExclusiveDataGuardIsr_drop
    \/ ExclusiveData_isr_exit
    \/ \E t \in Tasks : ~isr.active /\ Preempt(t)

SpecExclusive == Init /\ [][NextExclusive]_vars

\* C21: at most one guard that gives access to the data of the cell is
\* live at any instant.
C21_OneDataGuard == DataGuards <= 1

\* ---- units.rs -----------------------------------------------------------

\* u32 and TickType wrap at the same width: MAX_DELAY is the largest value
\* of both.
Word == MAX_DELAY + 1

\* configTICK_RATE_HZ, as the kernel may be configured.
TickRates == {1000, 500, 100}

\* TICK_PERIOD_MS = 1000 / TICK_RATE_HZ
TICK_PERIOD_MS(hz) == 1000 \div hz

\* Ticks::new
Ticks_new(ticks) == [made |-> TRUE, ticks |-> ticks]

\* Ticks::milliseconds(ms) = new((ms / TICK_PERIOD_MS) as TickType)
Ticks_milliseconds(ms, hz) == Ticks_new((ms \div TICK_PERIOD_MS(hz)) % Word)

\* Ticks::seconds(secs) = new((secs * 1000 / TICK_PERIOD_MS) as TickType):
\* the product wraps in a build without overflow checks and panics in one
\* with them.
Ticks_seconds(secs, hz, checked) ==
    IF secs * 1000 >= Word /\ checked
    THEN [made |-> FALSE, ticks |-> 0]
    ELSE Ticks_new((((secs * 1000) % Word) \div TICK_PERIOD_MS(hz)) % Word)

\* Ticks::infinite, Ticks::zero
Ticks_infinite == Ticks_new(MAX_DELAY)
Ticks_zero == Ticks_new(0)

Ticks_to_milliseconds_Ticks(ticks, hz) == ticks

\* Ticks::to_milliseconds = ticks * TICK_PERIOD_MS
Ticks_to_milliseconds(ticks, hz) == (ticks * TICK_PERIOD_MS(hz)) % Word

\* The constructor of a duration given in a unit.
Ticks_of(unit, d, hz, checked) ==
    CASE unit = "ticks" -> Ticks_new(d)
      [] unit = "ms" -> Ticks_milliseconds(d, hz)
      [] unit = "s" -> Ticks_seconds(d, hz, checked)

TimeUnits == {"ms", "s"}

\* The largest count of seconds whose milliseconds fit the word, and the
\* durations asked for: around zero, around that count, and the largest.
SecondsFit == MAX_DELAY \div 1000
Durations == (0..MaxWait) \cup {SecondsFit, SecondsFit + 1, MAX_DELAY}

\* The kernel is built with a tick rate.
Configure(hz) ==
    /\ units.hz = 0
    /\ units' = [units EXCEPT !.hz = hz]
    /\ ev' = Ev(0, "configure", "none", hz, 0)
    /\ UNCHANGED <<objVars, spawn, tmr, crit, prio, delay, report>>

\* Task t makes the Ticks of its timeout.
Ticks_make(t, unit, d, checked) ==
    /\ units.hz # 0
    /\ units.asked[t].unit = "none"
    /\ tcb[t].st = "run" /\ ~isr.active
    /\ LET r == Ticks_of(unit, d, units.hz, checked)
       IN /\ units' = [units EXCEPT !.asked[t] =
                         [unit |-> unit, d |-> d, made |-> r.made,
                          ticks |-> r.ticks, read |-> FALSE, ms |-> 0]]
          /\ ev' = Ev(t, "ticks", IF r.made THEN "Ok" ELSE "panic", r.ticks, 0)
    /\ UNCHANGED <<objVars, spawn, tmr, crit, prio, delay, report>>

\* Tick interrupts up to the next one that ends a wait, with no task step
\* in between.
TickTo ==
    /\ Ticking # {}
    /\ ~isr.active
    /\ LET k == CHOOSE n \in {tcb[t].left : t \in Ticking} :
                   \A u \in Ticking : n <= tcb[u].left
       IN /\ tcb' = [t \in Tasks |->
                       IF t \in Ticking
                       THEN [tcb[t] EXCEPT !.left = @ - k,
                                           !.st = IF tcb[t].left = k
                                                  THEN "woken" ELSE @]
                       ELSE tcb[t]]
          /\ ev' = Ev(0, "tick", "none", 0, k)
    /\ UNCHANGED <<auxVars, ntf, obj, made, data, guards, isr, sent, recvd, deletes, uaf>>

\* A blocking call of task t with the Ticks it made: the Ticks are made as
\* the argument of the call.
Timed(t) == units.asked[t].made /\ ev.t = t /\ ev.op = "ticks"
TimedWait(t) == units.asked[t].ticks

\* Two tasks receive, each with the timeout it made, from a queue that
\* nothing is ever sent to.
Timing == {1, 2}

NextTimeout ==
    \/ \E hz \in TickRates : Configure(hz)
    \/ \E t \in Timing, u \in TimeUnits, d \in Durations, c \in BOOLEAN :
          Ticks_make(t, u, d, c)
    \/ units.hz # 0 /\ Queue_new(1, TRUE)
    \/ \E t \in Timing : Timed(t) /\ Queue_receive_call(t, TimedWait(t))
    \/ \E t \in Tasks : Resume(t)
    \/ TickTo

SpecTimeout == Init /\ [][NextTimeout]_vars

\* A wait of x ticks ends no later than one of y ticks.
NoLater(x, y) == y = MAX_DELAY \/ (x # MAX_DELAY /\ x <= y)

\* C22: of two timeouts given in the same unit the shorter one makes a wait
\* that ends no later; a receive on the queue nothing is sent to blocks for
\* the Ticks made of its timeout, the ticks run it down, it fails only when
\* none are left, and it never returns success.
C22_TimeoutMonotone ==
    /\ [](\A t1, t2 \in Timing :
            LET a == units.asked[t1]
                b == units.asked[t2]
            IN a.made /\ b.made /\ a.unit = b.unit /\ a.d < b.d
               => NoLater(a.ticks, b.ticks))
    /\ [][\A t \in Timing :
            Timed(t) /\ ev'.t = t /\ ev'.op = "receive" /\ ev'.res = "Blocked"
            => tcb'[t].left = units.asked[t].ticks]_vars
    /\ [][ev'.op = "tick"
          => \A t \in Timing :
                tcb[t].st = "blocked" /\ tcb[t].left # MAX_DELAY
                => /\ tcb'[t].left = tcb[t].left - ev'.left
                   /\ tcb'[t].st = "woken" <=> tcb'[t].left = 0]_vars
    /\ [][ev'.op = "receive" /\ ev'.res = "QueueReceiveTimeout"
          => ev'.left = 0]_vars
    /\ [](ev.op = "receive" => ev.res \in {"Blocked", "QueueReceiveTimeout"})

\* ---- the blocking calls and their timeouts --------------------------------

\* One kernel object of any kind, or the notification of a task, waited
\* for by two tasks with every timeout and released by the other calls.
NextBlocking ==
    \/ \E k \in MutexKinds : Mutex_new(k, 0, TRUE)
    \/ Semaphore_new_binary_call(TRUE)
    \/ Queue_new(1, TRUE)
    \/ \E t \in Timing, w \in Waits : Mutex_lock(t, w)
    \/ \E t \in Timing : Mutex_guard_drop(t)
    \/ \E t \in Timing, w \in Waits : Semaphore_lock_call(t, w)
    \/ \E t \in Timing, w \in Waits : Semaphore_take_call(t, w)
    \/ \E t \in Timing : Semaphore_give_call(t)
    \/ \E t \in Timing : SemaphoreGuard_drop_call(t)
    \/ \E t \in Timing, w \in Waits : Queue_send_call(t, 1, w)
    \/ \E t \in Timing, w \in Waits : Queue_receive_call(t, w)
    \/ \E t \in Timing, w \in Waits :
          obj.state = "none" /\ Task_wait_for_notification_call(t, 0, 0, w)
    \/ \E c, t \in Timing :
          obj.state = "none" /\ Task_notify_call(c, t, <<"NoAction", 0>>)
    \/ \E t \in Timing : Resume(t)
    \/ Tick

\* The tick interrupt keeps coming and a task the kernel made ready runs.
SpecBlocking ==
    /\ Init /\ [][NextBlocking]_vars
    /\ WF_vars(Tick)
    /\ \A t \in Timing : WF_vars(Resume(t))

\* The step is the blocking call of task t with wait w on the object or on
\* its notification.
BlockingCall(t, w) ==
    \/ Mutex_lock(t, w)
    \/ Semaphore_lock_call(t, w)
    \/ Semaphore_take_call(t, w)
    \/ Queue_send_call(t, 1, w)
    \/ Queue_receive_call(t, w)
    \/ obj.state = "none" /\ Task_wait_for_notification_call(t, 0, 0, w)

\* The step is one of a blocking call of task t whose wait is w or has w
\* ticks left: the call, or the task running again.
BlockingStep(t, w) ==
    \/ BlockingCall(t, w)
    \/ Resume(t) /\ tcb[t].left = w

TimeoutErrors == {"MutexTimeout", "Timeout", "QueueSendTimeout", "QueueReceiveTimeout"}

\* C23: a blocking call made with Ticks::infinite() blocks with its wait
\* never running down, never returns a timeout error, and returns Ok only
\* when the operation can complete; a call made with a finite wait blocks
\* for that wait, returns Ok or its own timeout error, the latter only with
\* no ticks left, and a task inside such a call always returns from it.
C23_InfiniteAndFinite ==
    /\ [][\A t \in Timing :
            BlockingStep(t, MAX_DELAY)
            => /\ ev'.res \in {"Ok", "Blocked"}
               /\ ev'.res = "Ok" => CallReady(ev'.op, obj, t)
               /\ ev'.res = "Blocked" => tcb'[t].left = MAX_DELAY]_vars
    /\ [][\A t \in Timing :
            tcb[t].st # "run" /\ tcb[t].left = MAX_DELAY
            => tcb'[t].st = "run" \/ tcb'[t].left = MAX_DELAY]_vars
    /\ [][\A t \in Timing, w \in Waits \ {MAX_DELAY} :
            BlockingStep(t, w)
            => /\ ev'.res \in {"Ok", "Blocked", CallResult(ev'.op, FALSE)}
               /\ CallResult(ev'.op, FALSE) \in TimeoutErrors
               /\ ev'.res = "Ok" => CallReady(ev'.op, obj, t)
               /\ ev'.res \in TimeoutErrors => ev'.left = 0
               /\ ev'.res = "Blocked" => tcb'[t].left = w /\ w > 0]_vars
    /\ \A t \in Timing :
          (tcb[t].st # "run" /\ tcb[t].left # MAX_DELAY) ~> (tcb[t].st = "run")

\* C23 witness: a call with an infinite wait has returned Ok while the
\* call of another task, with a finite wait, is still blocked.
C23_InfiniteReturned ==
    /\ ev.res = "Ok" /\ ev.left = MAX_DELAY
    /\ \E t \in Timing \ {ev.t} :
          tcb[t].st = "blocked" /\ tcb[t].left # MAX_DELAY

\* ---- task.rs: priorities -------------------------------------------------

Priorities == 1..NumTasks

\* TaskBuilder::priority(p) of the builder task t is started with, before
\* anything runs.
TaskBuilder_priority(t, p) ==
    /\ obj.state = "none"
    /\ prio[t] # p
    /\ prio' = [prio EXCEPT ![t] = p]
    /\ ev' = Ev(t, "priority", "none", p, 0)
    /\ UNCHANGED <<objVars, spawn, tmr, crit, units, delay, report>>

Scheduled_Any(t) == TRUE

\* The kernel runs the ready task of the highest priority: task t takes a
\* step only while every task of a higher priority is blocked.
Scheduled(t) ==
    \A u \in Tasks \ {t} : prio[u] > prio[t] => tcb[u].st = "blocked"

\* Tasks of set priorities send to and receive from a queue, without
\* waiting or waiting for ever.
NextPreempt ==
    \/ \E t \in Tasks, p \in Priorities : TaskBuilder_priority(t, p)
    \/ \E k \in 1..MaxCap : Queue_new(k, TRUE)
    \/ \E t \in Tasks, i \in Items, w \in {0, MAX_DELAY} :
          Scheduled(t) /\ Queue_send_call(t, i, w)
    \/ \E t \in Tasks, w \in {0, MAX_DELAY} :
          Scheduled(t) /\ Queue_receive_call(t, w)
    \/ \E t \in Tasks : Scheduled(t) /\ Resume(t)

SpecPreempt == Init /\ [][NextPreempt]_vars

\* C24: when a send has unblocked a task of a higher priority than the
\* sender's that was blocked in receive with an infinite wait, the next
\* step is that task's: its receive returns Ok with the item just sent.
C24_ReceiverPreempts ==
    [][\A r \in Tasks :
          /\ ev.op = "send" /\ ev.res = "Ok" /\ ev.t # r
          /\ prio[r] > prio[ev.t]
          /\ tcb[r] = [st |-> "woken", api |-> "receive", left |-> MAX_DELAY,
                       item |-> 0]
          => /\ ev'.t = r /\ ev'.op = "receive" /\ ev'.res = "Ok"
             /\ ev'.item = ev.item
             /\ tcb'[r].st = "run"]_vars

\* C24 witness: the task of priority 2 has received the one item the task
\* of priority 1 sent, which it can only have sent while the receiver was
\* blocked.
C24_Received ==
    /\ ev.op = "receive" /\ ev.res = "Ok" /\ ev.left = MAX_DELAY
    /\ prio[ev.t] = 2
    /\ \A t \in Tasks \ {ev.t} : prio[t] = 1 /\ tcb[t].st = "run"
    /\ sent = <<ev.item>> /\ recvd = <<ev.item>>

\* Task t reads the Ticks it made back with to_milliseconds.
Ticks_read(t) ==
    /\ units.asked[t].made /\ ~units.asked[t].read
    /\ units' = [units EXCEPT
          !.asked[t].read = TRUE,
          !.asked[t].ms = Ticks_to_milliseconds(units.asked[t].ticks, units.hz)]
    /\ ev' = Ev(t, "to_milliseconds", "Ok", units'.asked[t].ms, 0)
    /\ UNCHANGED <<objVars, spawn, tmr, crit, prio, delay, report>>

\* The milliseconds counts converted.
Millis == (0..MaxMs) \cup Durations \cup {MAX_DELAY - 1}

NextUnits ==
    \/ \E hz \in TickRates : Configure(hz)
    \/ \E t \in Timing, m \in Millis, c \in BOOLEAN : Ticks_make(t, "ms", m, c)
    \/ \E t \in Timing : Ticks_read(t)

SpecUnits == Init /\ [][NextUnits]_vars

\* C25: Ticks::milliseconds(m) holds m / TICK_PERIOD_MS ticks, and its
\* to_milliseconds() is m less m mod TICK_PERIOD_MS.
C25_RoundTrip ==
    \A t \in Timing :
       LET a == units.asked[t]
           p == TICK_PERIOD_MS(units.hz)
       IN a.unit = "ms"
          => /\ a.made /\ a.ticks = a.d \div p
             /\ a.read => a.ms = a.d - (a.d % p)

\* C25 witness: a count that is not a multiple of the tick period was
\* converted and read back.
C25_RoundedDown ==
    \E t \in Timing :
       /\ units.asked[t].unit = "ms" /\ units.asked[t].read
       /\ units.asked[t].d % TICK_PERIOD_MS(units.hz) # 0
       /\ units.asked[t].ms < units.asked[t].d

\* ---- mutex.rs: BasicMutex::into_inner ----------------------------------

\* mem::forget(self) before the handle is dropped: when into_inner's
\* scope ends no drop glue runs for the wrapper, so the count of delete
\* calls n stays as it is.
BasicMutex_into_inner_scope_end_Drops(n) == n + 1

BasicMutex_into_inner_scope_end(n) == n

\* First half of into_inner(self): the handle and the cell are read out,
\* self is forgotten and drop(mutex) runs Drop for Normal / Recursive.
\* Taking self by value needs a wrapper nothing borrows.
Mutex_into_inner_drop ==
    /\ obj.state = "live" /\ obj.kind \in MutexKinds
    /\ TotalGuards = 0 /\ NoCallInProgress /\ ~isr.active
    /\ obj' = delete_semaphore(obj)
    /\ deletes' = deletes + 1
    /\ ev' = Ev(0, "into_inner_drop", "none", 0, 0)
    /\ UNCHANGED <<auxVars, ntf, made, data, tcb, guards, isr, sent, recvd, uaf>>

\* Second half: data.into_inner() hands the value back and the scope ends.
Mutex_into_inner_return ==
    /\ ev.op = "into_inner_drop"
    /\ deletes' = BasicMutex_into_inner_scope_end(deletes)
    /\ ev' = Ev(0, "into_inner", "Ok", data, 0)
    /\ UNCHANGED <<auxVars, ntf, obj, made, data, tcb, guards, isr, sent, recvd, uaf>>

NextInner ==
    \/ \E k \in MutexKinds, v \in Data, c \in BOOLEAN : Mutex_new(k, v, c)
    \/ \E t \in Tasks, w \in Waits : Mutex_lock(t, w)
    \/ \E t \in Tasks : Mutex_guard_drop(t)
    \/ \E t \in Tasks, v \in Data : Mutex_guard_write(t, v)
    \/ \E t \in Tasks : Resume(t)
    \/ Tick
    \/ Mutex_drop
    \/ Mutex_into_inner_drop
    \/ Mutex_into_inner_return

SpecInner == Init /\ [][NextInner]_vars

\* C26: into_inner returns the protected value as it was last written,
\* the one delete of the handle has happened by then, and no further
\* delete of that handle is ever issued.
C26_IntoInner ==
    /\ [](deletes <= 1)
    /\ [][ev'.op = "into_inner_drop"
            => deletes = 0 /\ deletes' = 1 /\ obj'.state = "deleted"]_vars
    /\ [][ev'.op = "into_inner" /\ ev.op # "into_inner"
            => /\ ev'.item = data /\ data' = data
               /\ obj.state = "deleted" /\ deletes = 1 /\ deletes' = 1]_vars
    /\ [][ev.op = "into_inner" => deletes' = deletes /\ obj' = obj]_vars

\* C26 witness: a non-default protected value was handed back by
\* into_inner after the handle was deleted.
C26_WrittenValueReturned ==
    /\ ev.op = "into_inner" /\ ev.item = data /\ data # 0
    /\ obj.state = "deleted" /\ deletes = 1

\* ---- the constructors when the kernel cannot allocate ------------------

\* The task starts followed: one is enough, each start has its own box
\* and its own new task.
Starting == {1}

\* Every constructor with either answer of the kernel, and the drops that
\* delete what a constructor made.
NextCreate ==
    \/ \E k \in MutexKinds, v \in Data, c \in BOOLEAN : Mutex_new(k, v, c)
    \/ \E k \in 1..MaxCap, c \in BOOLEAN : Queue_new(k, c)
    \/ \E c \in BOOLEAN : Semaphore_new_binary_call(c)
    \/ \E m \in 1..MaxCap, c \in BOOLEAN :
          \E i \in 0..m : Semaphore_new_counting_call(m, i, c)
    \/ Mutex_drop
    \/ Queue_drop
    \/ Semaphore_drop
    \/ \E i \in Starting : Task_spawn_box(i)
    \/ \E i \in Starting, c \in BOOLEAN : Task_spawn_create_task(i, c)
    \/ \E i \in Starting : Task_spawn_return(i)
    \/ \E i \in Starting : boxed_thread_start_call(i)
    \/ \E i \in Starting : boxed_thread_start_free(i)
    \/ \E i \in Starting : boxed_thread_start_delete_task(i)
    \/ \E p \in 1..MaxPeriod, r \in BOOLEAN, c \in BOOLEAN : Timer_create(p, r, c)
    \/ Timer_drop
    \/ Timer_drop_delete
    \/ Timer_service_command

SpecCreate == Init /\ [][NextCreate]_vars

\* A constructor of a mutex, queue or semaphore returning, the kernel
\* having answered `created`.
ObjectNew(created) ==
    \/ \E k \in MutexKinds, v \in Data : Mutex_new(k, v, created)
    \/ \E k \in 1..MaxCap : Queue_new(k, created)
    \/ Semaphore_new_binary_call(created)
    \/ \E m \in 1..MaxCap : \E i \in 0..m :
          Semaphore_new_counting_call(m, i, created)

\* C27: a constructor whose kernel create failed returns Err(OutOfMemory)
\* from that one answer, leaves no kernel object and no wrapper, and no
\* delete is issued for it afterwards.
C27_CreateFails ==
    /\ [](obj.state = "none" => deletes = 0)
    /\ [](tmr.pc = "failed"
            => tmr.kernel = "none" /\ tmr.queue = <<>> /\ ~tmr.destructor)
    /\ [](\A i \in Starting :
            spawn[i].pc = "failed" \/ spawn[i].res = "OutOfMemory"
               => spawn[i].child = "none")
    /\ [][ObjectNew(FALSE)
            => ev'.res = "OutOfMemory" /\ obj' = obj /\ deletes' = deletes]_vars
    /\ [][(\E p \in 1..MaxPeriod, r \in BOOLEAN : Timer_create(p, r, FALSE))
            => ev'.res = "OutOfMemory" /\ tmr'.pc = "failed"]_vars
    /\ [][tmr.pc = "failed" => tmr' = tmr]_vars
    /\ [][\A i \in Starting :
            /\ Task_spawn_create_task(i, FALSE) => spawn'[i].pc = "failed"
            /\ spawn[i].pc = "failed" /\ spawn'[i] # spawn[i]
                  => spawn'[i].res = "OutOfMemory"
            /\ spawn[i].res = "OutOfMemory" => spawn'[i] = spawn[i]]_vars

\* C27 witness: a task start, a timer and an object constructor have all
\* failed and returned.
C27_AllFailed ==
    /\ ev.op = "new" /\ ev.res = "OutOfMemory" /\ obj.state = "none"
    /\ tmr.pc = "failed"
    /\ \E i \in Starting : spawn[i].res = "OutOfMemory"

\* ---- delays.rs: TaskDelayPeriodic --------------------------------------

\* a - b on the tick type: below zero the subtraction wraps, or with
\* overflow checks compiled in it panics (-1 here).
Ticks_sub(a, b, checked) ==
    IF a >= b THEN a - b
    ELSE IF checked THEN -1 ELSE a - b + Word

\* TaskDelayPeriodic::should_run on the record d in a build with or
\* without overflow checks.
TaskDelayPeriodic_should_run(d, checked) ==
    LET c == d.now
        e == Ticks_sub(c, d.last_wake_time, checked)
    IN IF e = -1 THEN [d EXCEPT !.res = "panic"]
       ELSE IF e < d.period_ticks THEN [d EXCEPT !.res = "false"]
       ELSE [d EXCEPT !.last_wake_time = c, !.res = "true", !.elapsed = 0]

\* The tick counts the kernel may show when the helper is made: just
\* after boot and just before the counter wraps.
TickCounts == {0, 1, MAX_DELAY - 1, MAX_DELAY}

\* TaskDelayPeriodic::new(period), the kernel showing tick count c.
TaskDelayPeriodic_new(period, c) ==
    /\ delay.pc = "none"
    /\ delay' = [NoDelay EXCEPT !.pc = "live", !.now = c,
                                !.last_wake_time = c, !.period_ticks = period]
    /\ ev' = Ev(1, "delay_new", "none", period, 0)
    /\ UNCHANGED <<objVars, spawn, tmr, crit, units, prio, report>>

\* The tick interrupt advances the tick count, which wraps.
Delay_tick ==
    /\ delay.pc = "live" /\ delay.ticks < MaxTicks
    /\ delay' = [delay EXCEPT !.now = (@ + 1) % Word, !.elapsed = @ + 1,
                              !.ticks = @ + 1]
    /\ ev' = Ev(0, "delay_tick", "none", 0, 0)
    /\ UNCHANGED <<objVars, spawn, tmr, crit, units, prio, report>>

\* TaskDelayPeriodic::should_run()
TaskDelayPeriodic_should_run_call(checked) ==
    /\ delay.pc = "live" /\ delay.res # "panic"
    /\ delay' = TaskDelayPeriodic_should_run(delay, checked)
    /\ ev' = Ev(1, "should_run", delay'.res, 0, 0)
    /\ UNCHANGED <<objVars, spawn, tmr, crit, units, prio, report>>

\* TaskDelayPeriodic::set_period(period)
TaskDelayPeriodic_set_period(period) ==
    /\ delay.pc = "live" /\ delay.res # "panic"
    /\ period # delay.period_ticks
    /\ delay' = [delay EXCEPT !.period_ticks = period]
    /\ ev' = Ev(1, "set_period", "none", period, 0)
    /\ UNCHANGED <<objVars, spawn, tmr, crit, units, prio, report>>

\* TaskDelayPeriodic::reset()
TaskDelayPeriodic_reset ==
    /\ delay.pc = "live" /\ delay.res # "panic"
    /\ delay' = [delay EXCEPT !.last_wake_time = delay.now, !.elapsed = 0]
    /\ ev' = Ev(1, "reset", "none", 0, 0)
    /\ UNCHANGED <<objVars, spawn, tmr, crit, units, prio, report>>

NextDelay ==
    \/ \E p \in 0..MaxPeriod, c \in TickCounts : TaskDelayPeriodic_new(p, c)
    \/ Delay_tick
    \/ \E checked \in BOOLEAN : TaskDelayPeriodic_should_run_call(checked)
    \/ \E p \in 0..MaxPeriod : TaskDelayPeriodic_set_period(p)
    \/ TaskDelayPeriodic_reset

SpecDelay == Init /\ [][NextDelay]_vars

\* C28: should_run returns true exactly when at least period ticks have
\* passed since the period was last restarted, restarts the period from
\* the current tick when it does, and leaves it alone when it returns
\* false, also across a wrap of the tick count.
C28_ShouldRun ==
    [][ev'.op = "should_run"
         => /\ delay'.res \in {"true", "false"}
            /\ delay'.res = "true" <=> delay.elapsed >= delay.period_ticks
            /\ delay'.res = "true"
                  => delay'.last_wake_time = delay.now /\ delay'.elapsed = 0
            /\ delay'.res = "false"
                  => delay'.last_wake_time = delay.last_wake_time]_vars

\* ---- task.rs: the SchedulerState report --------------------------------

\* format!("{: >3}", s): s right-aligned in three columns.
PadLeft3(s) ==
    IF Len(s) >= 3 THEN s
    ELSE IF Len(s) = 2 THEN " " \o s
    ELSE IF Len(s) = 1 THEN "  " \o s
    ELSE "   "

\* (run_time_counter as u64) * 100: the product in the wider type, or in
\* the counter's own type, where it wraps.
Times100_Narrow(c) == (c * 100) % Word

Times100(c) == c * 100

\* The cpu_rel argument of the row that Display for SchedulerState writes.
SchedulerState_cpu_rel(run_time_counter, total_run_time) ==
    IF total_run_time > 0 /\ run_time_counter <= total_run_time
    THEN LET p == (Times100(run_time_counter) \div total_run_time) % Word
             ps == IF p = 0 /\ run_time_counter > 0 THEN "<1" ELSE ToString(p)
         IN PadLeft3(ps) \o "%"
    ELSE "-"

\* The counter values uxTaskGetSystemState may report.
RunTimes == (0..MaxRun) \cup {100, 655, 656, Word \div 2, MAX_DELAY - 1, MAX_DELAY}

\* get_all_tasks: the kernel's total run time and a task's counter.
get_all_tasks(total, counter) ==
    /\ report.pc = "none"
    /\ report' = [NoReport EXCEPT !.pc = "taken", !.total_run_time = total,
                                  !.run_time_counter = counter]
    /\ ev' = Ev(0, "get_all_tasks", "none", counter, 0)
    /\ UNCHANGED <<objVars, spawn, tmr, crit, units, prio, delay>>

\* Display for SchedulerState: the row of the task.
SchedulerState_fmt ==
    /\ report.pc = "taken"
    /\ report' = [report EXCEPT
                    !.pc = "shown",
                    !.cpu_rel = SchedulerState_cpu_rel(report.run_time_counter,
                                                       report.total_run_time)]
    /\ ev' = Ev(0, "fmt", "Ok", report.run_time_counter, 0)
    /\ UNCHANGED <<objVars, spawn, tmr, crit, units, prio, delay>>

NextReport ==
    \/ \E total \in RunTimes, counter \in RunTimes : get_all_tasks(total, counter)
    \/ SchedulerState_fmt

SpecReport == Init /\ [][NextReport]_vars

\* C29: the relative CPU column is "-" when the total run time is 0 or
\* the task's counter exceeds it; otherwise it shows the floor of
\* counter * 100 / total, which lies in 0..100, as "<1" when that floor is
\* 0 and the counter is not.
C29_CpuColumn ==
    report.pc = "shown"
       => LET c == report.run_time_counter
              t == report.total_run_time
          IN IF t = 0 \/ c > t
             THEN report.cpu_rel = "-"
             ELSE \E f \in 0..100 :
                     /\ f * t <= c * 100 /\ c * 100 < (f + 1) * t
                     /\ report.cpu_rel =
                           PadLeft3(IF f = 0 /\ c > 0 THEN "<1" ELSE ToString(f))
                              \o "%"

\* C29 witness: a report was formatted for a counter whose hundredfold
\* does not fit the counter's type.
C29_LargeCounterShown ==
    /\ report.pc = "shown"
    /\ report.run_time_counter * 100 >= Word
    /\ report.run_time_counter < report.total_run_time
    /\ report.cpu_rel = " 99%"

\* ---- timers.rs: the callback and the drop of its box -------------------

\* C30: the timer service task never calls the callback once the drop of
\* the Timer has freed the callback's box.
C30_NoCallbackAfterFree ==
    [][Timer_service_expire => tmr.box = "live" /\ ~tmr'.bad]_vars

\* ---- critical.rs: guards dropped in any order --------------------------

\* C31: while a CriticalSection guard or an ExclusiveDataGuard is live
\* the interrupts are masked, so preemption is disabled, in whichever
\* order the live guards are dropped.
C31_GuardMasks == crit.guards # <<>> => crit.mask = "masked"

\* ---- semaphore.rs: a binary semaphore before its first give ------------

\* No give, give_from_isr or guard drop has succeeded in the last step.
NoGiveYet ==
    ~(ev.op \in {"give", "give_from_isr", "guard_drop"} /\ ev.res = "Ok")

\* A binary semaphore followed from new_binary up to and including the
\* first give that succeeds.
NextEmpty ==
    \/ \E c \in BOOLEAN : NoGiveYet /\ Semaphore_new_binary_call(c)
    \/ \E t \in Tasks, w \in Waits : NoGiveYet /\ Semaphore_lock_call(t, w)
    \/ \E t \in Tasks, w \in Waits : NoGiveYet /\ Semaphore_take_call(t, w)
    \/ \E t \in Tasks : NoGiveYet /\ Semaphore_give_call(t)
    \/ \E p \in Interruptible : NoGiveYet /\ Isr_enter(p)
    \/ NoGiveYet /\ Semaphore_give_from_isr_call
    \/ NoGiveYet /\ Isr_exit
    \/ \E t \in Tasks : NoGiveYet /\ Resume(t)
    \/ NoGiveYet /\ Tick

SpecEmpty == Init /\ [][NextEmpty]_vars

\* C32: a semaphore made by new_binary is empty, and before the first
\* give or give_from_isr that succeeds no take or lock returns anything
\* but Err(Timeout), once its wait is used up, and no SemaphoreGuard
\* exists.
C32_StartsEmpty ==
    /\ [][Semaphore_new_binary_call(TRUE) => ~take_mutex_ready(obj')]_vars
    /\ [](NoGiveYet => \A t \in Tasks : guards[t] = 0)
    /\ [][NoGiveYet /\ ev'.op \in {"sem_take", "sem_lock"}
            => /\ ev'.res \in {"Timeout", "Blocked"}
               /\ ev'.res = "Timeout" => ev'.left = 0
               /\ ev'.res = "Blocked" => ev'.left # 0
               /\ guards' = guards /\ obj' = obj]_vars

\* C32 witness: on a binary semaphore never given, a lock has returned
\* Err(Timeout) while another task is still blocked in its wait.
C32_TimedOut ==
    /\ obj.kind = "binary" /\ obj.state = "live" /\ NoGiveYet
    /\ ev.op = "sem_lock" /\ ev.res = "Timeout"
    /\ \E t \in Tasks : tcb[t].st = "blocked"

\* ---- task.rs: take and wait through the handle of another task ---------

\* The task whose notification state take_notification and
\* wait_for_notification act on when task `caller` invokes them on a
\* handle of task `handle`: task_notify_take and task_notify_wait are not
\* given self.task_handle, the kernel takes the calling task.
Task_notification_target_Handle(caller, handle) == handle

Task_notification_target(caller, handle) == caller

\* Task::take_notification(clear, wait_for) invoked by task c on a handle
\* of task h.
Task_take_notification_on(c, h, clear, w) ==
    /\ tcb[c].st = "run"
    /\ Task_take_notification_call(Task_notification_target(c, h), clear, w)

\* Task::wait_for_notification(enter, exit, wait_for) invoked by task c on
\* a handle of task h.
Task_wait_for_notification_on(c, h, enter, exit, w) ==
    /\ tcb[c].st = "run"
    /\ Task_wait_for_notification_call(Task_notification_target(c, h),
                                       enter, exit, w)

\* The notifications sent here: one that counts and one that sets a bit.
HandleNotifications == {<<"Increment", 0>>, <<"SetBits", 1>>}

\* The tasks followed: a caller and the task of the handle, either way
\* round.
Handling == {1, 2}

\* Both tasks notify, take and wait through the handles of both; the
\* calls poll or wait forever.
NextHandle ==
    \/ \E c \in Handling, t \in Handling, n \in HandleNotifications :
          Task_notify_call(c, t, n)
    \/ \E c \in Handling, h \in Handling, clear \in BOOLEAN, w \in {0, MAX_DELAY} :
          Task_take_notification_on(c, h, clear, w)
    \/ \E c \in Handling, h \in Handling, enter, exit \in {0, AllBits}, w \in {0, MAX_DELAY} :
          Task_wait_for_notification_on(c, h, enter, exit, w)
    \/ \E t \in Handling : Resume(t)

SpecHandle == Init /\ [][NextHandle]_vars

\* Task c makes a step of take_notification or wait_for_notification on a
\* handle of task h.
OnHandle(c, h) ==
    \/ \E clear \in BOOLEAN, w \in {0, MAX_DELAY} :
          Task_take_notification_on(c, h, clear, w)
    \/ \E enter, exit \in {0, AllBits}, w \in {0, MAX_DELAY} :
          Task_wait_for_notification_on(c, h, enter, exit, w)

\* C33: take_notification and wait_for_notification invoked by task c on a
\* handle of another task h leave h's notification value and pending flag
\* as they were; it is c whose call is recorded, c that blocks, and c's
\* notification state that is waited on.
C33_CallerNotHandle ==
    /\ [][\A c \in Handling : \A h \in Handling \ {c} :
            OnHandle(c, h)
               => /\ ntf'[h] = ntf[h] /\ tcb'[h] = tcb[h]
                  /\ ev'.t = c
                  /\ ev'.res = "Blocked"
                        => tcb'[c].st = "blocked" /\ ntf'[c].state = "waiting"
                  /\ ev'.res # "Blocked" /\ ntf[c].state = "received"
                        => ntf'[c].state = "none"]_vars
    /\ [][\A c \in Handling :
            ev'.op \in {"take_notification", "wait"} /\ ev'.t = c
               => \A h \in Handling \ {c} : ntf'[h] = ntf[h]]_vars

\* C33 witness: a task took its own pending notification through a call
\* on the handle of another task whose notification is still pending.
C33_OtherStillPending ==
    \E c \in Handling : \E h \in Handling \ {c} :
       /\ ev.op = "take_notification" /\ ev.t = c /\ ev.item > 0
       /\ ntf[c].state = "none"
       /\ ntf[h].state = "received" /\ ntf[h].value > 0

\* ---- units.rs: Ticks::seconds ------------------------------------------

\* The tasks make the Ticks of timeouts given in seconds.
NextSeconds ==
    \/ \E hz \in TickRates : Configure(hz)
    \/ \E t \in Timing, d \in Durations, c \in BOOLEAN : Ticks_make(t, "s", d, c)

SpecSeconds == Init /\ [][NextSeconds]_vars

\* C34: Ticks::seconds(secs) returns secs * 1000 / TICK_PERIOD_MS ticks,
\* the product not wrapped, which is what Ticks::milliseconds makes of
\* 1000 * secs, and a larger secs never gives fewer ticks.
C34_SecondsExact ==
    /\ \A t \in Timing :
          LET a == units.asked[t]
          IN a.unit = "s"
             => /\ a.made
                /\ a.ticks = ((a.d * 1000) \div TICK_PERIOD_MS(units.hz)) % Word
    /\ \A t, u \in Timing :
          LET a == units.asked[t]
              b == units.asked[u]
          IN a.unit = "s" /\ b.unit = "s" /\ a.d <= b.d /\ a.made /\ b.made
             => a.ticks <= b.ticks

====
